----------------------------- MODULE MCDispatch -----------------------------
(* Instances of Dispatch for TLC.                                           *)
EXTENDS Dispatch, TLC

(* Recovery inside Timeout, as README.md adds them, and outside, as         *)
(* docs/api/README.md does, and chains without Timeout or Recovery.         *)
MCChains ==
    { <<"logging", "timeout", "recovery">>,
      <<"recovery", "timeout", "authstore">>,
      <<"recovery", "authcode">>,
      <<"ratelimit", "auth">> }

NoMiddleware == { <<>> }
=============================================================================
