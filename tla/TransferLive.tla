---------------------------- MODULE TransferLive ----------------------------
(***************************************************************************)
(* Transfer under the fairness of the two programs and of the net: both    *)
(* call enet_host_service for ever, a datagram that is not lost arrives,   *)
(* and what stays unacknowledged times out.  A timeout is longer than a    *)
(* datagram travels: here, unlike in Transfer, nothing is on its way when  *)
(* it expires.                                                             *)
(*                                                                         *)
(* "last" names the step taken last.  It makes a service call in which     *)
(* nothing happens a step too, and lets the fairness be stated of steps    *)
(* whose condition is a plain one: each formula of Fairness is the weak    *)
(* fairness of one action, with its ENABLED written out.                   *)
(***************************************************************************)
EXTENDS Transfer

VARIABLE last

Named(name, Step) == Step /\ last' = name

LiveInit == Init /\ last = <<"none", Sender>>

LiveNext ==
  \/ \E kind \in menu.kinds : Named(<<"sends", Sender>>, SendPacket(kind))
  \/ \E a \in {Sender, Receiver} :
       \/ Named(<<"calls", a>>, Calls(a))
       \/ Named(<<"takes", a>>, Takes(a))
       \/ net = {} /\ Named(<<"retries", a>>, TimesOut(a, SentBy(a)))
  \/ \E d \in net : Named(<<"loses", d.to>>, Lose(d))

Fairness ==
  \A a \in {Sender, Receiver} :
    /\ []<>(last = <<"calls", a>>)
    /\ <>[](\E d \in net : d.to = a) => []<>(last = <<"takes", a>>)
    /\ <>[](net = {} /\ SentBy(a) # {}) => []<>(last = <<"retries", a>>)

\* The menus with retries are followed under fairness, the others freely.
FairSpec ==
  /\ LiveInit
  /\ [][IF menu.retries THEN LiveNext ELSE Named(last, Next)]_<<vars, last>>
  /\ menu.retries => Fairness

\* However often a datagram is lost, whatever reliable packets were sent are all
\* handed over in the end and known by the sender to have arrived, again and again
\* as long as more are sent.
AllDelivered ==
  \A n \in DOMAIN sent : Reliably(sent[n].kind) => sent[n].data \in ToSet(got)

EventuallySettled == menu.retries => []<>(AllDelivered /\ Outstanding = {})
=============================================================================
