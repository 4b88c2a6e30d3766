----------------------------- MODULE MCRelayHub -----------------------------
(***************************************************************************)
(* The relay server by itself: pages are represented by the requests they  *)
(* are able to make.  A page knows the codes its creator was told and the  *)
(* tokens the hub gave out.  `asked` bounds the run: a connection makes    *)
(* each kind of request once, only one connection of all relays, and       *)
(* MaxDead of them die.  `late` and `cut` are history: they tell why a     *)
(* session may be deleted under a connection that is open.                 *)
(***************************************************************************)
EXTENDS RelayHub, TLC

CONSTANTS Sizes, MaxDead

ASSUME SizesAssumption == Sizes \subseteq Nat

VARIABLES
  asked,  \* the kinds of requests a connection has made
  late,   \* connections that took a seat when cleanup had passed its flag
  cut     \* those whose seat another connection's end marked disconnected

history == <<late, cut>>
mcVars == <<hubVars, sweep, asked, history>>

KnownCodes == {m.session : m \in Written("created")}
KnownTokens == {Seat(m.session, 0) : m \in Written("created")}
                 \cup ({m.token : m \in Written("joined")} \ {NoSeat})

Requests ==
  [type : {"create"}, parties : Sizes]
    \cup [type : {"join"}, session : KnownCodes]
    \cup [type : {"reconnect"}, token : KnownTokens]

Ask(c) ==
  /\ \E m \in Requests \cup {[type |-> "relay", to |-> i, payload |-> c] : i \in 0 .. 1} :
       /\ m.type \notin asked[c]
       /\ IF m.type = "relay"
          THEN seat[c] # NoSeat /\ \A d \in Conns : "relay" \notin asked[d]
          ELSE asked[c] = {}
       /\ Request(c, m)
       /\ asked' = [asked EXCEPT ![c] = @ \cup {m.type}]
  /\ UNCHANGED <<link, wire, pc, todo, seat, ipConns, session, listed>>

Deaths == Cardinality({c \in Conns : link[c] \in {"gone", "closed"} /\ asked[c] # {}})

(* The flag of a seat has been read by the pass that is going on. *)
Overlooked(t) == sweep.at = t.code /\ (sweep.next = 0 \/ t.id + 1 < sweep.next)

TakesSeat(c) == pc[c] \in {"create", "join", "reconnect"} /\ seat'[c] # NoSeat
Leaves(c) == pc[c] # "leave" /\ pc'[c] = "leave"
Twins(c) == {d \in Conns \ {c} : seat[c] # NoSeat /\ seat[d] = seat[c] /\ pc[d] = "read"}

Note(c) ==
  /\ late' = late \cup {d \in {c} : TakesSeat(c) /\ Overlooked(seat'[c])}
  /\ cut' = cut \cup {d \in Twins(c) : Leaves(c)}

Sweeping ==
  /\ Cleanup
  /\ late' = IF sweep'.at = sweep.at THEN late ELSE {}
  /\ UNCHANGED <<asked, cut>>

MCInit ==
  /\ HubInit
  /\ asked = [c \in Conns |-> {}]
  /\ late = {} /\ cut = {}

MCNext ==
  \/ \E c \in Conns : Goroutine(c) /\ Note(c) /\ UNCHANGED <<sweep, asked>>
  \/ \E c \in Conns : Network(c) /\ UNCHANGED <<sweep, asked, history>> /\ Deaths' <= MaxDead
  \/ \E c \in Conns : Ask(c) /\ UNCHANGED <<sweep, history>>
  \/ AbandonTimeout /\ UNCHANGED <<asked, history>>
  \/ Sweeping

MCSpec == MCInit /\ [][MCNext]_mcVars

(* "10 min with no connections" (relay-ceremony-design.md:56): cleanup      *)
(* deletes no session in which an open connection sits, with two           *)
(* exceptions that the code has: the connection took its seat after this   *)
(* pass had read the seat's flag (hub.go:333: no party's lock is held from *)
(* the flag to the deletion), or it came before another connection of the  *)
(* seat was found dead, whose deferred disconnect (hub.go:409) cleared the *)
(* flag.                                                                   *)
OnlyAbandonedDeleted ==
  [][\A code \in listed \ listed' : \A c \in Conns :
       (link[c] = "open" /\ pc[c] = "read" /\ seat[c].code = code)
         => c \in late \cup cut]_mcVars

MCAddressOf == [c \in Conns |-> CHOOSE a \in Addresses : TRUE]
ConnSymmetry == Permutations(Conns)
=============================================================================
