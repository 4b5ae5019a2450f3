----------------------------- MODULE MCBootstrap -----------------------------
(* Small instances of Bootstrap for TLC. *)
EXTENDS Bootstrap, TLC

\* What may be said of a variable, also nothing.
Said(v, values) == {Empty} \cup {v :> x : x \in values}

Both(S, T) == {Over(f, g) : f \in S, g \in T}

Environment == Said("NODE_ENV", {"production", "test", "junk"})
Flags ==
  Both(Said("SWAGGER_ENABLED", {"true", "false", "junk"}),
       Said("BULL_BOARD_ENABLED", {"true", "false", "junk"}))

\* The number and the secret, right, wrong and not given.
Required == Both(Said("PORT", {"3000", "0"}), Said("JWT_SECRET", {"secret", "junk"}))

\* The supervisor gives the environment and one of the flags, the file the rest.
SomeShell ==
  Both(Environment, Said("SWAGGER_ENABLED", {"false"})
                      \cup Said("BULL_BOARD_ENABLED", {"true", "junk"}))
SomeFile ==
  Both(Said("NODE_ENV", {"production"}), Both(Flags, Said("JWT_SECRET", {"secret"})))
    \cup Required

OnlyTestSetup == {TestSetup}
DevelopmentFile ==
  {[NODE_ENV |-> "development", PORT |-> "3000", JWT_SECRET |-> "secret"]}
=============================================================================
