-------------------------- MODULE MCPrefixCacheStore --------------------------
(***************************************************************************)
(* Small instances of PrefixCacheStore for TLC.                            *)
(***************************************************************************)
EXTENDS PrefixCacheStore

\* A prefix, two extensions of it, one of which exceeds the limit alone.
NestedPrompts == {<<1>>, <<1, 2>>, <<1, 2, 1>>}
NestedQueries == {<<1, 2, 1, 1>>, <<1, 2>>, <<2>>}

\* No two of them collide.
Whole(p) == p

One(p) == 1
Twice(p) == 2 * Len(p)

=============================================================================
