------------------------------- MODULE Config -------------------------------
(***************************************************************************)
(* ServerPerformanceConfig (src/config.rs): each setting comes from the    *)
(* environment if its variable is there and can be parsed, otherwise it    *)
(* has its default.  No setting is checked for making sense.               *)
(***************************************************************************)
EXTENDS Naturals

CONSTANTS Env,     \* the numbers in the environment: none or one for each setting
          Default  \* the constants of module defaults

Name == {"MAX_CONCURRENT_REQUESTS", "THREAD_POOL_SIZE", "BLOCKING_QUEUE_SIZE",
         "STREAM_READ_BUFFER_SIZE"}

ASSUME ConfigAssumption ==
  \A name \in Name :
    /\ Env[name] \subseteq Nat /\ \A m, n \in Env[name] : m = n
    /\ Default[name] \in Nat

Setting(name) ==
  IF Env[name] = {} THEN Default[name] ELSE CHOOSE n \in Env[name] : TRUE
=============================================================================
