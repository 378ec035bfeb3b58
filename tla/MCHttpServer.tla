----------------------------- MODULE MCHttpServer -----------------------------
(***************************************************************************)
(* Requests for the instances of HttpServer that TLC checks.               *)
(***************************************************************************)
EXTENDS HttpServer

EachKind == {Get("index"), Post("ann"), Put}
TwoNames == {Post("ann"), Post("bob")}
=============================================================================
