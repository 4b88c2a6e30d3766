---------------------------- MODULE MCRelayClient ----------------------------
(***************************************************************************)
(* Instance of RelayClient: one page creates a session of two or three,    *)
(* the others join it as soon as they can know its code, in any order.     *)
(* Allowance bounds, together, the messages that are sent and the          *)
(* connections of one page, the flaky one, that break or are closed (in a  *)
(* session of three only once that page mistakes its own number); only the *)
(* creator and the flaky page send.  Connections are dialled in numerical  *)
(* order.                                                                  *)
(***************************************************************************)
EXTENDS RelayClient, TLC

CONSTANTS creator, flaky, Sizes, Allowance

Broken == Cardinality({c \in Conns : link[c] \in {"gone", "closed"}})
Sends == FoldSet(LAMBDA p, n : n + Cardinality(sent[p]), 0, Pages)
Large == \E code \in DOMAIN session : session[code].size > 2
Spare == Broken + Sends + (IF Large THEN 1 ELSE 0) < Allowance

InOrder == \A c \in Conns : owner'[c] # owner[c] => \A d \in Fresh : c <= d

User(p) ==
  \/ p = creator /\ Create(p)
  \/ p # creator /\ \E code \in ToldCodes : Join(p, code)
  \/ p = flaky /\ Spare /\ Close(p)
  \/ p \in {creator, flaky} /\ Spare /\ \E to \in 0 .. MaxParties - 1 : to \notin sent[p] /\ SendTo(p, to, p)

Loop(p) == (\E size \in Sizes : EventLoop(p, size)) /\ InOrder
Breaks(c) == owner[c] = flaky /\ Spare /\ (Large => Misnumbered(flaky)) /\ Break(c)

(* Steps that no other step can disturb are taken first, to save states: a *)
(* handshake up to the first request, and messages that only raise events. *)
Shaking == {c \in Conns : owner[c] # None /\ link[c] \in {"none", "upgrading"}}
Greeting == {p \in Pages : page[p].ws # None /\ link[page[p].ws] = "open" /\ ~page[p].greeted}
Idling == {p \in Pages : page[p].ws # None /\ wire[page[p].ws] # <<>>
             /\ \/ Head(wire[page[p].ws]).type \in {"left", "reconnected"}
                \/ Head(wire[page[p].ws]).type = "joined" /\ page[p].state # "joining"}

Step ==
  IF Shaking # {} THEN \E c \in Shaking : Serve(c) \/ Breaks(c)
  ELSE IF Greeting # {} THEN \E p \in Greeting, size \in Sizes : Opened(p, size)
  ELSE IF Idling # {} THEN Receive(CHOOSE p \in Idling : TRUE)
  ELSE \/ \E p \in Pages : (User(p) /\ InOrder) \/ Loop(p)
       \/ \E c \in Conns : Serve(c) \/ Breaks(c)

(* Sessions do not age here: relay_hub is about that. *)
MCNext == Step /\ UNCHANGED sweep

(* Some goroutine or event loop runs whenever one can; users, and the      *)
(* network's failures, owe nothing.                                        *)
Running == ((\E p \in Pages : Loop(p)) \/ (\E c \in Conns : Serve(c))) /\ UNCHANGED sweep

MCSpec == ClientInit /\ [][MCNext]_relayVars /\ WF_relayVars(Running)

MCAddressOf == [c \in Conns |-> CHOOSE a \in Addresses : TRUE]
=============================================================================
