------------------------------ MODULE RelayHub ------------------------------
(***************************************************************************)
(* The relay server: relay/hub.go, session.go and limits.go.               *)
(*                                                                         *)
(* Every WebSocket connection has a goroutine of its own (handleWS).  A    *)
(* goroutine reads one request at a time; what it does under a lock is one *)
(* step here, and every message it writes to a party is another, so two    *)
(* goroutines interleave exactly where the code releases its locks.        *)
(* `todo[c]` holds the writes the goroutine of c has still to make, and    *)
(* `pc[c]` where it stands between two locked sections of one handler.     *)
(*                                                                         *)
(* Names: a connection that creates or joins brings the ECDH public key of *)
(* its page, and is used as that key; a token is the pair of the session   *)
(* and the party it was issued to; `stale` says that AbandonTimeout has    *)
(* passed since LastActivity.  A deleted session stays in `session`,       *)
(* because goroutines may still hold it; `listed` is the hub's map.  The   *)
(* cleanup goroutine holds h.mu for a whole pass, and no party's lock:     *)
(* what needs h.mu waits while `sweep` is not Resting.                     *)
(***************************************************************************)
EXTENDS Naturals, SequencesExt

CONSTANTS Conns, Codes, Addresses, AddressOf, None,
          MaxSessions, MaxParties, MaxPerIP

ASSUME RelayAssumption ==
  /\ AddressOf \in [Conns -> Addresses]
  /\ MaxSessions \in Nat /\ MaxParties \in Nat /\ MaxPerIP \in Nat
  /\ None \notin Conns \cup Codes

VARIABLES
  link,      \* the state of each connection, as TCP and the server see it
  inbox,     \* requests a connection has delivered and nobody has read
  wire,      \* messages written to a connection
  pc, todo,  \* where its goroutine stands and what it has still to write
  seat,      \* the goroutine's `sess` and `partyID`
  ipConns,   \* connections counted for an address
  session,   \* every session ever made
  listed,    \* the codes in the hub's map
  sweep      \* where the pass of the cleanup goroutine stands

connVars == <<link, ipConns>>
hubVars == <<link, inbox, wire, pc, todo, seat, ipConns, session, listed>>

Seat(code, id) == [code |-> code, id |-> id]
NoSeat == Seat(None, 0)

\* The sessions a pass has still to look at, the one it looks at, and the
\* number of the flag to be read next there, 0 when all have been read.
Resting == [left |-> {}, at |-> None, next |-> 0]

HubInit ==
  /\ link = [c \in Conns |-> "none"]
  /\ inbox = [c \in Conns |-> <<>>]
  /\ wire = [c \in Conns |-> <<>>]
  /\ pc = [c \in Conns |-> "read"]
  /\ todo = [c \in Conns |-> <<>>]
  /\ seat = [c \in Conns |-> NoSeat]
  /\ ipConns = [a \in Addresses |-> 0]
  /\ session = [x \in {} |-> {}]
  /\ listed = {}
  /\ sweep = Resting

-----------------------------------------------------------------------------
(* limits.go *)

Counted(c) == link[c] \in {"upgrading", "open", "gone"}

AddIP(c) ==
  /\ link[c] = "none"
  /\ IF ipConns[AddressOf[c]] >= MaxPerIP
     THEN link' = [link EXCEPT ![c] = "closed"] /\ UNCHANGED ipConns
     ELSE /\ link' = [link EXCEPT ![c] = "upgrading"]
          /\ ipConns' = [ipConns EXCEPT ![AddressOf[c]] = @ + 1]
  /\ UNCHANGED <<inbox, wire, pc, todo, seat, session, listed>>

RemoveIP(c) == ipConns' = [ipConns EXCEPT ![AddressOf[c]] = @ - 1]

Accept(c) ==
  /\ link[c] = "upgrading"
  /\ link' = [link EXCEPT ![c] = "open"]
  /\ UNCHANGED <<inbox, wire, pc, todo, seat, ipConns, session, listed>>

(* Mutant of AcceptFails: the address stays charged. *)
AcceptFailsCharged(c) ==
  /\ link[c] = "upgrading"
  /\ link' = [link EXCEPT ![c] = "closed"]
  /\ UNCHANGED <<inbox, wire, pc, todo, seat, ipConns, session, listed>>

AcceptFails(c) ==
  /\ link[c] = "upgrading"
  /\ link' = [link EXCEPT ![c] = "closed"]
  /\ RemoveIP(c)
  /\ UNCHANGED <<inbox, wire, pc, todo, seat, session, listed>>

-----------------------------------------------------------------------------
(* session.go *)

NewSession(n) == [size |-> n, ready |-> FALSE, stale |-> FALSE, party |-> <<>>]

NewParty(c) == [key |-> c, conn |-> c, connected |-> TRUE]

(* Mutant of Full: one party too many. *)
FullLate(s) == Len(s.party) > s.size

Full(s) == Len(s.party) >= s.size

(* Mutant of NowFull: counted before the party is added. *)
NowFullLate(s) == Len(s.party) >= s.size /\ ~s.ready

NowFull(s) == Len(s.party) + 1 >= s.size /\ ~s.ready

AddParty(s, c) ==
  [s EXCEPT !.party = Append(@, NewParty(c)),
            !.ready = @ \/ NowFull(s),
            !.stale = FALSE]

Parties(s) == 0 .. Len(s.party) - 1

\* A party's connection is replaced, or lost.
SetConn(s, id, c, on) ==
  LET p == [key |-> s.party[id + 1].key, conn |-> c, connected |-> on]
  IN [s EXCEPT !.party = [@ EXCEPT ![id + 1] = p]]

\* HasConnected has the read lock of the session: no party is added.
Scanned(code) == sweep.at = code /\ sweep.next > 1

(* Mutant of Keys: collected before the last party is added. *)
KeysBefore(s) == [i \in 1 .. Len(s.party) - 1 |-> s.party[i].key]

Keys(s) == [i \in 1 .. Len(s.party) |-> s.party[i].key]

-----------------------------------------------------------------------------
(* What a goroutine writes, in order: to one party, or to all but one. *)

Send(code, id, m) == [all |-> FALSE, party |-> id, code |-> code, msg |-> m]
Broadcast(code, m, exclude) == [all |-> TRUE, party |-> exclude, code |-> code, msg |-> m]
Nobody == MaxParties

\* The numbers of n parties but one, in order.
Others(n, exclude) ==
  IF exclude < n
  THEN [i \in 1 .. n - 1 |-> IF i <= exclude THEN i - 1 ELSE i]
  ELSE [i \in 1 .. n |-> i - 1]

SendError(c) ==
  /\ wire' = [wire EXCEPT ![c] = Append(@, [type |-> "error"])]
  /\ UNCHANGED <<link, pc, todo, seat, ipConns, session, listed>>

(* One write of the goroutine of c.  A broadcast first copies the party   *)
(* list; each write looks at the party's connection again and is dropped  *)
(* if there is none.                                                      *)
Write(c) ==
  /\ todo[c] # <<>>
  /\ LET w == Head(todo[c])
         s == session[w.code]
         p == s.party[w.party + 1]
         ids == Others(Len(s.party), w.party)
         copies == [i \in DOMAIN ids |-> Send(w.code, ids[i], w.msg)]
     IN IF w.all
        THEN /\ todo' = [todo EXCEPT ![c] = copies \o Tail(@)]
             /\ UNCHANGED wire
        ELSE /\ todo' = [todo EXCEPT ![c] = Tail(@)]
             /\ wire' = IF p.connected
                        THEN [wire EXCEPT ![p.conn] = Append(@, w.msg)]
                        ELSE wire
  /\ UNCHANGED <<link, inbox, pc, seat, ipConns, session, listed>>

-----------------------------------------------------------------------------
(* The read loop.  A request is taken only when the last one is done. *)

Reading(c) ==
  /\ link[c] \in {"open", "gone"}
  /\ pc[c] = "read" /\ todo[c] = <<>>

Take(c, type) ==
  /\ Reading(c)
  /\ inbox[c] # <<>>
  /\ Head(inbox[c]).type = type
  /\ inbox' = [inbox EXCEPT ![c] = Tail(@)]

(* Mutant of HandleCreate: the code is announced before the creator is in. *)
HandleCreateAnnounced(c) ==
  /\ Take(c, "create")
  /\ LET n == Head(inbox[c]).parties
         refused == seat[c] # NoSeat \/ n < 2 \/ n > MaxParties
     IN
     /\ refused \/ sweep = Resting
     /\ IF refused \/ Cardinality(listed) >= MaxSessions
        THEN SendError(c)
        ELSE \E code \in Codes \ DOMAIN session :
               /\ session' = [x \in DOMAIN session \cup {code} |->
                                IF x = code THEN NewSession(n) ELSE session[x]]
               /\ listed' = listed \cup {code}
               /\ pc' = [pc EXCEPT ![c] = "create"]
               /\ seat' = [seat EXCEPT ![c] = Seat(code, 0)]
               /\ wire' = [wire EXCEPT ![c] =
                    Append(@, [type |-> "created", session |-> code, partyId |-> 0])]
               /\ UNCHANGED <<link, todo, ipConns>>

HandleCreate(c) ==
  /\ Take(c, "create")
  /\ LET n == Head(inbox[c]).parties
         refused == seat[c] # NoSeat \/ n < 2 \/ n > MaxParties
     IN
     /\ refused \/ sweep = Resting
     /\ IF refused \/ Cardinality(listed) >= MaxSessions
        THEN SendError(c)
        ELSE \E code \in Codes \ DOMAIN session :
               /\ session' = [x \in DOMAIN session \cup {code} |->
                                IF x = code THEN NewSession(n) ELSE session[x]]
               /\ listed' = listed \cup {code}
               /\ pc' = [pc EXCEPT ![c] = "create"]
               /\ seat' = [seat EXCEPT ![c] = Seat(code, 0)]
               /\ UNCHANGED <<link, wire, todo, ipConns>>

\* AddParty refuses nobody here: the session's code is announced only after
\* this step, so that the creator finds the session empty.
AddCreator(c) ==
  /\ pc[c] = "create"
  /\ ~Scanned(seat[c].code)
  /\ LET code == seat[c].code
         id == Len(session[code].party)
     IN /\ session' = [session EXCEPT ![code] = AddParty(@, c)]
        /\ seat' = [seat EXCEPT ![c] = Seat(code, id)]
        /\ todo' = [todo EXCEPT ![c] =
             <<Send(code, id, [type |-> "created", session |-> code, partyId |-> id])>>]
  /\ pc' = [pc EXCEPT ![c] = "read"]
  /\ UNCHANGED <<link, inbox, wire, ipConns, listed>>

HandleJoin(c) ==
  /\ Take(c, "join")
  /\ seat[c] # NoSeat \/ sweep = Resting
  /\ LET code == Head(inbox[c]).session IN
     IF seat[c] # NoSeat \/ code \notin listed \/ Full(session[code]) \/ session[code].ready
     THEN SendError(c)
     ELSE /\ pc' = [pc EXCEPT ![c] = "join"]
          /\ seat' = [seat EXCEPT ![c] = Seat(code, 0)]
          /\ UNCHANGED <<link, wire, todo, ipConns, session, listed>>

AddJoiner(c) ==
  /\ pc[c] = "join"
  /\ ~Scanned(seat[c].code)
  /\ pc' = [pc EXCEPT ![c] = "read"]
  /\ LET code == seat[c].code
         s == session[code]
         id == Len(s.party)
         told == <<Send(code, id, [type |-> "joined", partyId |-> id, token |-> Seat(code, id)]),
                   Broadcast(code, [type |-> "joined", partyId |-> id, token |-> NoSeat], id)>>
         ready == <<Broadcast(code, [type |-> "ready", keys |-> Keys(AddParty(s, c))], Nobody)>>
     IN IF Full(s)
        THEN /\ seat' = [seat EXCEPT ![c] = NoSeat]
             /\ wire' = [wire EXCEPT ![c] = Append(@, [type |-> "error"])]
             /\ UNCHANGED <<session, todo>>
        ELSE /\ session' = [session EXCEPT ![code] = AddParty(s, c)]
             /\ seat' = [seat EXCEPT ![c] = Seat(code, id)]
             /\ todo' = [todo EXCEPT ![c] = told \o (IF NowFull(s) THEN ready ELSE <<>>)]
             /\ UNCHANGED wire
  /\ UNCHANGED <<link, inbox, ipConns, listed>>

HandleReconnect(c) ==
  /\ Take(c, "reconnect")
  /\ seat[c] # NoSeat \/ sweep = Resting
  /\ LET t == Head(inbox[c]).token IN
     IF seat[c] # NoSeat \/ t.code \notin listed \/ t.id \notin Parties(session[t.code])
     THEN SendError(c)
     ELSE /\ pc' = [pc EXCEPT ![c] = "reconnect"]
          /\ seat' = [seat EXCEPT ![c] = t]
          /\ UNCHANGED <<link, wire, todo, ipConns, session, listed>>

\* Under the party's lock the connection and the flag, then under the
\* session's LastActivity, as one step: a pass of cleanup that reads the old
\* LastActivity in between is one that read it just before.
Reattach(c) ==
  /\ pc[c] = "reconnect"
  /\ pc' = [pc EXCEPT ![c] = "read"]
  /\ LET code == seat[c].code
         id == seat[c].id
         back == [type |-> "reconnected", partyId |-> id]
     IN /\ session' = [session EXCEPT ![code] =
                          [SetConn(@, id, c, TRUE) EXCEPT !.stale = FALSE]]
        /\ todo' = [todo EXCEPT ![c] = <<Send(code, id, back), Broadcast(code, back, id)>>]
  /\ UNCHANGED <<link, inbox, wire, seat, ipConns, listed>>

RelayRefused(c, to) ==
  \/ seat[c] = NoSeat
  \/ to = seat[c].id
  \/ to \notin Parties(session[seat[c].code])

HandleRelay(c) ==
  /\ Take(c, "relay")
  /\ LET m == Head(inbox[c])
         code == seat[c].code
         id == seat[c].id
         out == [type |-> "relay", from |-> id, to |-> m.to, payload |-> m.payload]
     IN IF RelayRefused(c, m.to)
        THEN SendError(c)
        ELSE /\ session' = [session EXCEPT ![code].stale = FALSE]
             /\ todo' = [todo EXCEPT ![c] = <<Send(code, m.to, out)>>]
             /\ UNCHANGED <<link, wire, pc, seat, ipConns, listed>>

-----------------------------------------------------------------------------
(* The deferred functions of handleWS, last in first out: the party is    *)
(* marked disconnected, whichever connection it has by now, the others    *)
(* are told, and only then the address is given back.                     *)

(* Mutant of Disconnect: the party stays marked connected. *)
DisconnectQuietly(c) ==
  /\ link[c] = "gone" /\ Reading(c)
  /\ pc' = [pc EXCEPT ![c] = "leave"]
  /\ UNCHANGED <<link, inbox, wire, todo, seat, ipConns, session, listed>>

Disconnect(c) ==
  /\ link[c] = "gone" /\ Reading(c)
  /\ pc' = [pc EXCEPT ![c] = "leave"]
  /\ IF seat[c] = NoSeat
     THEN UNCHANGED <<session, todo>>
     ELSE LET code == seat[c].code
              id == seat[c].id
          IN /\ session' = [session EXCEPT ![code] = SetConn(@, id, None, FALSE)]
             /\ todo' = [todo EXCEPT ![c] =
                  <<Broadcast(code, [type |-> "left", partyId |-> id], id)>>]
  /\ UNCHANGED <<link, inbox, wire, seat, ipConns, listed>>

Release(c) ==
  /\ pc[c] = "leave" /\ todo[c] = <<>> /\ link[c] = "gone"
  /\ link' = [link EXCEPT ![c] = "closed"]
  /\ RemoveIP(c)
  /\ UNCHANGED <<inbox, wire, pc, todo, seat, session, listed>>

(***************************************************************************)
(* cleanup, the one goroutine that deletes sessions.  It visits the        *)
(* sessions in any order; one that is not stale at the start of the pass   *)
(* will not be at its turn.  LastActivity is read first, then the parties' *)
(* flags one after the other, then the session is deleted: parties come    *)
(* back and go at any point of this.                                       *)
(***************************************************************************)
SweepStart ==
  /\ sweep = Resting
  /\ \E code \in listed : session[code].stale
  /\ sweep' = [Resting EXCEPT !.left = {code \in listed : session[code].stale}]
  /\ UNCHANGED hubVars

Pass(code) == sweep' = [Resting EXCEPT !.left = sweep.left \ {code}]

SweepLook ==
  /\ sweep.at = None
  /\ \E code \in sweep.left :
       IF session[code].stale
       THEN sweep' = [sweep EXCEPT !.at = code, !.next = 1]
       ELSE Pass(code)
  /\ UNCHANGED hubVars

(* Mutant of SweepFlag: the last party's flag is not read. *)
SweepFlagShort ==
  LET party == session[sweep.at].party
      n == sweep.next
  IN /\ sweep.at # None /\ n > 0
     /\ IF n <= Len(party) /\ party[n].connected
        THEN Pass(sweep.at)
        ELSE sweep' = [sweep EXCEPT !.next = IF n + 1 < Len(party) THEN n + 1 ELSE 0]
     /\ UNCHANGED hubVars

SweepFlag ==
  LET party == session[sweep.at].party
      n == sweep.next
  IN /\ sweep.at # None /\ n > 0
     /\ IF n <= Len(party) /\ party[n].connected
        THEN Pass(sweep.at)
        ELSE sweep' = [sweep EXCEPT !.next = IF n < Len(party) THEN n + 1 ELSE 0]
     /\ UNCHANGED hubVars

SweepDelete ==
  /\ sweep.at # None /\ sweep.next = 0
  /\ listed' = listed \ {sweep.at}
  /\ Pass(sweep.at)
  /\ UNCHANGED <<link, inbox, wire, pc, todo, seat, ipConns, session>>

Cleanup == SweepStart \/ SweepLook \/ SweepFlag \/ SweepDelete

-----------------------------------------------------------------------------
(* The world outside the server: AbandonTimeout passes (a pass of cleanup *)
(* goes by the time it started at), a connection dies (closed by the page,*)
(* or found dead by a ping), a request arrives.                           *)

AbandonTimeout ==
  \E code \in listed :
    /\ sweep = Resting
    /\ ~session[code].stale
    /\ session' = [session EXCEPT ![code].stale = TRUE]
    /\ UNCHANGED <<link, inbox, wire, pc, todo, seat, ipConns, listed, sweep>>

Hangup(c) ==
  /\ link[c] = "open"
  /\ link' = [link EXCEPT ![c] = "gone"]
  /\ UNCHANGED <<inbox, wire, pc, todo, seat, ipConns, session, listed>>

Request(c, m) ==
  /\ link[c] = "open"
  /\ inbox' = [inbox EXCEPT ![c] = Append(@, m)]

Goroutine(c) ==
  \/ HandleCreate(c) \/ AddCreator(c)
  \/ HandleJoin(c) \/ AddJoiner(c)
  \/ HandleReconnect(c) \/ Reattach(c)
  \/ HandleRelay(c) \/ Write(c)
  \/ Disconnect(c) \/ Release(c)

Network(c) == AddIP(c) \/ Accept(c) \/ AcceptFails(c) \/ Hangup(c)

-----------------------------------------------------------------------------
Written(type) == UNION {{m \in ToSet(wire[c]) : m.type = type} : c \in Conns}

SweepTypeOK == sweep \in [left : SUBSET Codes, at : Codes \cup {None}, next : Nat]

HubTypeOK ==
  /\ link \in [Conns -> {"none", "upgrading", "open", "gone", "closed"}]
  /\ pc \in [Conns -> {"read", "create", "join", "reconnect", "leave"}]
  /\ ipConns \in [Addresses -> 0 .. MaxPerIP]
  /\ listed \subseteq DOMAIN session /\ DOMAIN session \subseteq Codes
  /\ \A c \in Conns : seat[c] = NoSeat \/ seat[c].code \in DOMAIN session
  /\ SweepTypeOK

(* limits.go: an address is charged for exactly the connections it has in *)
(* some stage between AddIP and the end of the handler, whether the       *)
(* upgrade failed, the read loop ended or the limit was hit.              *)
AddressChargedExactly ==
  \A a \in Addresses :
    ipConns[a] = Cardinality({c \in Conns : AddressOf[c] = a /\ Counted(c)})

(* handleJoin tests for room under one lock and AddParty takes the seat   *)
(* under another: however joins overlap, a session never seats more       *)
(* parties than were asked for, and `ready` is its being full.            *)
NeverOverfull ==
  \A code \in DOMAIN session :
    LET s == session[code] IN
    Len(s.party) <= s.size /\ (s.ready <=> Len(s.party) = s.size)

(* The ceremony relies on it (DKGWizard takes the session's parameters    *)
(* only from party 0): the creator is party 0, although its session can   *)
(* be found by others before it is added to it.                           *)
CreatorIsPartyZero == \A m \in Written("created") : m.partyId = 0

(* Everybody that is told "ready" is told the same keys, one for every    *)
(* party of the session, its own at its own number.                       *)
ReadyAgreed ==
  \A c \in Conns : \A m \in ToSet(wire[c]) :
    m.type = "ready" =>
      LET s == session[seat[c].code] IN m.keys = Keys(s) /\ Len(m.keys) = s.size

(* What the hub writes for a party goes to a connection that party opened *)
(* itself, and that is not known to be closed.                            *)
ConnectedIsOwn ==
  \A code \in DOMAIN session : \A i \in Parties(session[code]) :
    LET p == session[code].party[i + 1] IN
    p.connected => seat[p.conn] = Seat(code, i) /\ link[p.conn] \in {"open", "gone"}

=============================================================================
