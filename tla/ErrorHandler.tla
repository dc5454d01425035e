----------------------------- MODULE ErrorHandler -----------------------------
(***************************************************************************)
(* ErrorHandlerLayer (aras/src/layers/error_handler.rs): whatever error     *)
(* comes out of the middleware below it is answered with a response.        *)
(* "Overloaded" is the error of tower's LoadShed and "Elapsed" that of its   *)
(* Timeout; every other error, those of the protocol handlers and their     *)
(* own tokio timeouts included, is "other".                                 *)
(***************************************************************************)

Errors == {"Overloaded", "Elapsed", "other"}

ErrorResponse(e) ==
    CASE e = "Overloaded" -> "503"
      [] e = "Elapsed"    -> "504"
      [] OTHER            -> "500"
=============================================================================
