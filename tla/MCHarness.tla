----------------------------- MODULE MCHarness -----------------------------
(* An instance of Harness for TLC.  The environment and .env may hold the  *)
(* key of the provider; the variable may also be set to nothing.           *)
EXTENDS Harness

CONSTANTS t1, t2

MCTerminals == {t1, t2}
MCNames == {ApiKey, "ANTHROPIC_API_KEY"}

MCSecrets ==
  [n \in MCNames |-> IF n = ApiKey THEN {"s1", "s2"} ELSE {"other"}]

(* The values of the provider's name; nothing is said of the other name.   *)
Setting(inEnviron, inDotEnv) ==
  LET of(v) == [n \in MCNames |-> IF n = ApiKey THEN v ELSE None]
  IN  [environ |-> of(inEnviron), dotenv |-> of(inDotEnv)]

MCSettings ==
  {Setting(None, None), Setting(None, "file"), Setting(Empty, "file"),
   Setting("key", "file")}
=============================================================================
