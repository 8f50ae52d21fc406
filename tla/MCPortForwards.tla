--------------------------- MODULE MCPortForwards ---------------------------
(* Instances of PortForwards for TLC. *)
EXTENDS PortForwards

Url(user, host, service, port) == [user |-> user, host |-> host, service |-> service, port |-> port]

(***************************************************************************)
(* Two services behind one ssh host, one of them also without its port, an *)
(* url that names no service, and two ssh hosts whose names make one       *)
(* socket.                                                                 *)
(***************************************************************************)
MCEndpoints ==
  {Url(<<"a">>, <<"b">>, <<"s">>, "80"),
   Url(<<"a">>, <<"b">>, <<"t">>, "80"),
   Url(<<"a">>, <<"b">>, <<"s">>, NoPort),
   Url(<<"a">>, <<"b">>, <<>>, NoPort),
   Url(<<"a">>, <<"b", "-", "c">>, <<"s">>, "80"),
   Url(<<"a", "-", "b">>, <<"c">>, <<"s">>, "80")}

=============================================================================
