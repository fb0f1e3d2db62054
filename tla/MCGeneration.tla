---------------------------- MODULE MCGeneration ----------------------------
(***************************************************************************)
(* Small instances of Generation for TLC.                                  *)
(***************************************************************************)
EXTENDS Generation

\* Token 3 stops.  The next token depends on the whole sequence, on the
\* order of its tokens and on its length, so that a state that lost,
\* repeated or swapped a token soon shows.
MCGreedy(s) ==
  LET h[n \in 0..Len(s)] == IF n = 0 THEN 1 ELSE (11 * h[n - 1] + s[n]) % 13
  IN  (h[Len(s)] % 3) + 1

\* Token 3, the only stop, is never its own runner-up.
MCRunnerUp(s) == (Len(s) % 2) + 1

Req(p, n, sampling, streaming) ==
  [prompt |-> p, max_tokens |-> n, sampled |-> sampling,
   stream |-> streaming]

Conf(h, b, d, e, s, a, m) ==
  [head |-> h, backend |-> b, disk |-> d, extendEnv |-> e, shared |-> s,
   anchor |-> a, minTokens |-> m]

\* A prompt that is continued for four tokens, one that soon stops, a later
\* turn of the first conversation, and a one-token prompt.
MCRequests ==
  {Req(<<1, 2>>, 4, FALSE, TRUE), Req(<<1, 2, 1, 2>>, 3, FALSE, FALSE),
   Req(<<1, 2, 2, 2, 1>>, 2, TRUE, FALSE), Req(<<2>>, 3, FALSE, FALSE)}

MCConfigs ==
  {Conf(TRUE, FALSE, TRUE, FALSE, FALSE, 0, 0),
   Conf(TRUE, FALSE, FALSE, TRUE, FALSE, 0, 0),
   Conf(TRUE, TRUE, FALSE, FALSE, TRUE, 0, 0),
   Conf(FALSE, TRUE, TRUE, FALSE, TRUE, 0, 2),
   Conf(FALSE, TRUE, FALSE, TRUE, FALSE, 2, 0)}

AnchorWithHead == {Conf(TRUE, TRUE, FALSE, FALSE, TRUE, 2, 0)}

=============================================================================
