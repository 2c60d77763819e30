--------------------------- MODULE MCForumUnreads ---------------------------
EXTENDS ForumUnreads

\* Two posts of one forum and one of another.
ThreeThreads == {<<"a", 1>>, <<"a", 2>>, <<"b", 1>>}

=============================================================================
