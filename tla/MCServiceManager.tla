--------------------------- MODULE MCServiceManager ---------------------------
(***************************************************************************)
(* One service per isolation mode; the one on the shared thread is in the  *)
(* foreground.                                                             *)
(***************************************************************************)
EXTENDS ServiceManager, TLC

IsolationOf == <<"main_thread", "shared_thread", "dedicated_thread">>

Handler(exit, raise, continue, retry, default) ==
  [exit |-> exit, raise |-> raise, continue |-> continue, retry |-> retry, default |-> default]

RetryErrors == Handler({"Exception"}, {}, {}, {"ValueError", "KeyError"}, "raise")

ExitOnOthers == Handler({"BaseException"}, {"ValueError"}, {"KeyError"}, {"KeyError"}, "raise")

RetryAll == Handler({}, {}, {"ValueError"}, {"CancelledError"}, "retry")

Handlers ==
  { <<RetryErrors, RetryAll, RetryErrors>>, <<ExitOnOthers, ExitOnOthers, RetryErrors>> }

Classes ==
  ("ValueError" :> <<"ValueError", "Exception", "BaseException">>) @@
  ("KeyError" :> <<"KeyError", "LookupError", "Exception", "BaseException">>) @@
  ("CancelledError" :> <<"CancelledError", "BaseException">>)
=============================================================================
