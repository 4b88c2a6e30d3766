--------------------------- MODULE RelayHub_proofs ---------------------------
(***************************************************************************)
(* Theorems about the relay server, for any number of connections,         *)
(* sessions and addresses and any limits, with the pages of MCRelayHub:    *)
(* whatever a page asks for it may ask for, as long as it knows the code   *)
(* (told to its creator) or the token (given out by the hub).  The lemmas  *)
(* about the server's steps serve the pages of RelayClient as well.        *)
(*                                                                         *)
(* The invariant HubInv follows what is on its way.  A page may join only  *)
(* a session that was Announced; a session under creation is Unentered, so *)
(* that its creator finds it empty.  A write waiting in `todo`, and a      *)
(* message on a `wire`, are good for the seat they are meant for, and what *)
(* a connection sits in is changed by its own goroutine alone; hence a     *)
(* write still reaches the right page after any number of reconnections    *)
(* (Attached).  SweepInv follows a pass of cleanup: a party is left        *)
(* without a connection only by one that sat in its seat (KeptBy), so that *)
(* a flag found cleared was cleared by it, or the seat was taken after.    *)
(***************************************************************************)
EXTENDS MCRelayHub, RelayClient, SequenceTheorems, FiniteSetTheorems, TLAPS

(* What the state consists of. *)
Token == [code : Codes \cup {None}, id : Nat]

\* What pages send one another: those of MCRelayHub, and those of RelayClient.
Payload == Conns \cup [under : SUBSET Conns, text : Pages]

Asked ==
  [type : {"create"}, parties : Nat]
    \cup [type : {"join"}, session : Codes]
    \cup [type : {"reconnect"}, token : Token]
    \cup [type : {"relay"}, to : Nat, payload : Payload]

Message ==
  [type : {"error"}]
    \cup [type : {"created"}, session : Codes, partyId : Nat]
    \cup [type : {"joined"}, partyId : Nat, token : Token]
    \cup [type : {"ready"}, keys : Seq(Conns)]
    \cup [type : {"reconnected", "left"}, partyId : Nat]
    \cup [type : {"relay"}, from : Nat, to : Nat, payload : Payload]

WriteOrder == [all : BOOLEAN, party : Nat, code : Codes \cup {None}, msg : Message]

Party == [key : Conns, conn : Conns \cup {None}, connected : BOOLEAN]
Session == [size : Nat, ready : BOOLEAN, stale : BOOLEAN, party : Seq(Party)]

Sessions == DOMAIN session

StateTypes ==
  /\ link \in [Conns -> {"none", "upgrading", "open", "gone", "closed"}]
  /\ pc \in [Conns -> {"read", "create", "join", "reconnect", "leave"}]
  /\ seat \in [Conns -> Token]
  /\ session \in [Sessions -> Session]
  /\ Sessions \subseteq Codes /\ listed \subseteq Sessions
  /\ DOMAIN inbox = Conns /\ DOMAIN wire = Conns /\ DOMAIN todo = Conns

\* The session can be known outside: its creator is in.
Announced(code) ==
  code \in Sessions /\ \A c \in Conns : pc[c] = "create" => seat[c].code # code

\* The keys of all parties of a full session.
Everybody(keys, code) ==
  code \in Sessions /\ keys = Keys(session[code]) /\ Len(keys) = session[code].size

(* What waits in the queues of a connection. *)
OkRequests == {m \in Asked : m.type = "join" => Announced(m.session)}

OkMessages(c) ==
  {m \in Message :
     /\ m.type = "created" => m.partyId = 0 /\ Announced(m.session)
     /\ m.type = "ready" => pc[c] \in {"read", "leave"} /\ Everybody(m.keys, seat[c].code)}

OkWrites(c) ==
  {w \in WriteOrder :
     /\ w.code = seat[c].code /\ w.code \in Sessions
     /\ ~w.all => w.party < Len(session[w.code].party)
     /\ w.msg.type = "created" => w.msg.partyId = 0 /\ w.msg.session = w.code
     /\ w.msg.type = "ready" => Everybody(w.msg.keys, w.code)}

QueuesOk ==
  \A c \in Conns :
    /\ inbox[c] \in Seq(OkRequests)
    /\ wire[c] \in Seq(OkMessages(c))
    /\ todo[c] \in Seq(OkWrites(c))

\* A goroutine's seat, by where it stands.
SeatsOk ==
  \A c \in Conns :
    /\ pc[c] \in {"create", "join", "reconnect"} =>
         seat[c] # NoSeat /\ todo[c] = <<>> /\ link[c] \in {"open", "gone"}
    /\ pc[c] = "leave" => link[c] \in {"gone", "closed"}
    /\ seat[c] # NoSeat => seat[c].code \in Sessions
    /\ seat[c] # NoSeat /\ pc[c] \in {"read", "leave", "reconnect"} =>
         seat[c].id < Len(session[seat[c].code].party)

\* A session under creation is empty, and its creator alone has it.
Unentered ==
  \A c \in Conns :
    pc[c] = "create" =>
      /\ session[seat[c].code].party = <<>>
      /\ \A d \in Conns \ {c} : seat[d].code # seat[c].code

\* No session is overfull, and `ready` is being full.
Rooms ==
  \A code \in Sessions :
    LET s == session[code] IN
    /\ 2 <= s.size /\ Len(s.party) <= s.size
    /\ s.ready <=> Len(s.party) = s.size

\* A party's connection sits in that party's seat.
Attached ==
  \A code \in Sessions : \A i \in 1 .. Len(session[code].party) :
    LET p == session[code].party[i] IN
    p.connected => /\ p.conn \in Conns
                   /\ seat[p.conn] = Seat(code, i - 1)
                   /\ pc[p.conn] = "read"
                   /\ link[p.conn] \in {"open", "gone"}

HubInv ==
  StateTypes /\ QueuesOk /\ SeatsOk /\ Unentered /\ Rooms /\ Attached

\* The flag of the party whose seat a connection has.
Flag(d) == session[seat[d].code].party[seat[d].id + 1].connected

\* What a step of the goroutine of c makes of the flags of seated connections:
\* it takes one away only when it leaves, from its own seat.
KeptBy(c) ==
  \A d \in Conns : pc'[d] = "read" /\ seat'[d] # NoSeat =>
    \/ Flag(d)'
    \/ /\ pc[d] = "read" /\ seat'[d] = seat[d]
       /\ ~Flag(d) \/ (d \in Twins(c) /\ Leaves(c))

-----------------------------------------------------------------------------
(* Limits: who is charged for what. *)
Charged(a) == {c \in Conns : AddressOf[c] = a /\ Counted(c)}

ChargeInv ==
  /\ DOMAIN link = Conns
  /\ ipConns \in [Addresses -> Nat]
  /\ \A a \in Addresses : IsFiniteSet(Charged(a)) /\ ipConns[a] = Cardinality(Charged(a))

\* A connection that begins to count is charged to its address.
LEMMA ChargeOne ==
  ASSUME ChargeInv, NEW c \in Conns, ~Counted(c),
         link' = [link EXCEPT ![c] = "upgrading"],
         ipConns' = [ipConns EXCEPT ![AddressOf[c]] = @ + 1]
  PROVE  ChargeInv'
<1>1. AddressOf[c] \in Addresses
  BY RelayAssumption
<1>2. DOMAIN link' = Conns /\ ipConns' \in [Addresses -> Nat]
  BY <1>1 DEF ChargeInv
<1>3. ASSUME NEW a \in Addresses
      PROVE  IsFiniteSet(Charged(a)') /\ ipConns'[a] = Cardinality(Charged(a)')
  <2>1. CASE a = AddressOf[c]
    <3>1. Charged(a)' = Charged(a) \cup {c} /\ c \notin Charged(a)
      BY <2>1 DEF Charged, Counted, ChargeInv
    <3>2. IsFiniteSet(Charged(a)') /\ Cardinality(Charged(a)') = Cardinality(Charged(a)) + 1
      BY <3>1, FS_AddElement DEF ChargeInv
    <3> QED
      BY <2>1, <3>2 DEF ChargeInv
  <2>2. CASE a # AddressOf[c]
    <3>1. Charged(a)' = Charged(a)
      BY <2>2 DEF Charged, Counted, ChargeInv
    <3> QED
      BY <1>1, <2>2, <3>1 DEF ChargeInv
  <2> QED
    BY <2>1, <2>2
<1> QED
  BY <1>2, <1>3 DEF ChargeInv

\* One that ends counting, on whatever path, is given back.
LEMMA GiveBack ==
  ASSUME ChargeInv, NEW c \in Conns, Counted(c),
         link' = [link EXCEPT ![c] = "closed"], RemoveIP(c)
  PROVE  ChargeInv'
<1>1. AddressOf[c] \in Addresses
  BY RelayAssumption
<1>2. c \in Charged(AddressOf[c])
  BY DEF Charged
<1>3. /\ IsFiniteSet(Charged(AddressOf[c]) \ {c})
      /\ Cardinality(Charged(AddressOf[c]) \ {c}) = Cardinality(Charged(AddressOf[c])) - 1
      /\ Cardinality(Charged(AddressOf[c])) \in Nat
  BY <1>1, <1>2, FS_RemoveElement, FS_CardinalityType DEF ChargeInv
<1>4. Cardinality(Charged(AddressOf[c])) # 0
  BY <1>1, <1>2, FS_EmptySet DEF ChargeInv
<1>5. DOMAIN link' = Conns /\ ipConns' \in [Addresses -> Nat]
  BY <1>1, <1>3, <1>4 DEF ChargeInv, RemoveIP
<1>6. ASSUME NEW a \in Addresses
      PROVE  IsFiniteSet(Charged(a)') /\ ipConns'[a] = Cardinality(Charged(a)')
  <2>1. CASE a = AddressOf[c]
    <3>1. Charged(a)' = Charged(a) \ {c}
      BY <2>1 DEF Charged, Counted, ChargeInv
    <3> QED
      BY <1>1, <1>3, <2>1, <3>1 DEF ChargeInv, RemoveIP
  <2>2. CASE a # AddressOf[c]
    <3>1. Charged(a)' = Charged(a)
      BY <2>2 DEF Charged, Counted, ChargeInv
    <3> QED
      BY <1>1, <2>2, <3>1 DEF ChargeInv, RemoveIP
  <2> QED
    BY <2>1, <2>2
<1> QED
  BY <1>5, <1>6 DEF ChargeInv

\* Every other change of a connection leaves it counted, or not.
LEMMA SameCount ==
  ASSUME ChargeInv, UNCHANGED ipConns, DOMAIN link' = Conns,
         \A c \in Conns : Counted(c)' <=> Counted(c)
  PROVE  ChargeInv'
<1>1. \A a \in Addresses : Charged(a)' = Charged(a)
  BY DEF Charged
<1> QED
  BY <1>1 DEF ChargeInv

LEMMA ChargeGoroutine ==
  ASSUME ChargeInv, NEW c \in Conns, Goroutine(c)
  PROVE  ChargeInv'
<1>1. CASE Release(c)
  BY <1>1, GiveBack DEF Release, Counted
<1>2. CASE ~Release(c)
  <2>1. UNCHANGED connVars
    BY Zenon, <1>2 DEF Goroutine, connVars, HandleCreate, AddCreator, HandleJoin, AddJoiner,
       HandleReconnect, Reattach, HandleRelay, Write, Disconnect, SendError
  <2> QED
    BY <2>1, SameCount DEF connVars, Counted, ChargeInv
<1> QED
  BY <1>1, <1>2

LEMMA ChargeNetwork ==
  ASSUME ChargeInv, NEW c \in Conns, Network(c)
  PROVE  ChargeInv'
<1>1. CASE AddIP(c)
  <2>1. CASE ipConns[AddressOf[c]] >= MaxPerIP
    BY <1>1, <2>1, SameCount DEF AddIP, Counted, ChargeInv
  <2>2. CASE ~(ipConns[AddressOf[c]] >= MaxPerIP)
    BY <1>1, <2>2, ChargeOne DEF AddIP, Counted
  <2> QED
    BY <2>1, <2>2
<1>2. CASE Accept(c)
  BY <1>2, SameCount DEF Accept, Counted, ChargeInv
<1>3. CASE AcceptFails(c)
  BY <1>3, GiveBack DEF AcceptFails, Counted
<1>4. CASE Hangup(c)
  BY <1>4, SameCount DEF Hangup, Counted, ChargeInv
<1> QED
  BY <1>1, <1>2, <1>3, <1>4 DEF Network

LEMMA ChargeStep == ChargeInv /\ [MCNext]_mcVars => ChargeInv'
<1> SUFFICES ASSUME ChargeInv, [MCNext]_mcVars PROVE ChargeInv'
  OBVIOUS
<1>1. ASSUME UNCHANGED connVars PROVE ChargeInv'
  BY <1>1, SameCount DEF connVars, Counted, ChargeInv
<1>2. CASE UNCHANGED mcVars
  BY <1>1, <1>2 DEF mcVars, hubVars, connVars
<1> QED
  BY <1>1, <1>2, ChargeGoroutine, ChargeNetwork
     DEF MCNext, Ask, Sweeping, Cleanup, SweepStart, SweepLook, SweepFlag, SweepDelete,
         AbandonTimeout, hubVars, connVars

LEMMA InitCharge == HubInit => ChargeInv
<1> SUFFICES ASSUME HubInit PROVE ChargeInv
  OBVIOUS
<1>1. \A a \in Addresses : Charged(a) = {}
  BY DEF HubInit, Charged, Counted
<1> QED
  BY <1>1, FS_EmptySet DEF HubInit, ChargeInv

LEMMA ChargeIsExact == ChargeInv => AddressChargedExactly
  BY DEF ChargeInv, AddressChargedExactly, Charged

\* limits.go: an address is charged for exactly the connections it has,
\* however each of them ended.
THEOREM AddressesCharged == MCSpec => []AddressChargedExactly
  BY InitCharge, ChargeIsExact, ChargeStep, PTL DEF MCSpec, MCInit

-----------------------------------------------------------------------------
(* What every step leaves standing: sessions and their full lists of keys, *)
(* the seat of a goroutine between handlers, and codes not being created.  *)
Keeps ==
  /\ \A code \in Sessions :
       /\ code \in Sessions'
       /\ session'[code].size = session[code].size
       /\ Len(session[code].party) <= Len(session'[code].party)
       /\ Len(session[code].party) = session[code].size
            => Keys(session'[code]) = Keys(session[code])
  /\ \A c \in Conns :
       /\ seat[c] # NoSeat /\ pc[c] \in {"read", "leave"}
            => seat'[c] = seat[c] /\ pc'[c] \in {"read", "leave"}
       /\ pc'[c] = "create" =>
            \/ seat'[c].code \notin Sessions
            \/ pc[c] = "create" /\ seat'[c].code = seat[c].code

LEMMA NoneIsNoSession ==
  ASSUME StateTypes, NEW c \in Conns, seat[c].code \in Sessions
  PROVE  seat[c] # NoSeat
  BY RelayAssumption DEF StateTypes, NoSeat, Seat

LEMMA AnnouncedStays ==
  ASSUME HubInv, Keeps, NEW code, Announced(code)
  PROVE  Announced(code)'
  BY DEF Keeps, Announced, Sessions

LEMMA KeysAll ==
  ASSUME NEW s \in Session
  PROVE  /\ Len(s.party) \in Nat /\ DOMAIN s.party = 1 .. Len(s.party)
         /\ Keys(s) \in Seq(Conns) /\ Len(Keys(s)) = Len(s.party)
<1>1. s.party \in Seq(Party)
  BY DEF Session
<1>2. Len(s.party) \in Nat /\ DOMAIN s.party = 1 .. Len(s.party)
  BY <1>1, LenProperties
<1>3. ASSUME NEW i \in 1 .. Len(s.party) PROVE s.party[i].key \in Conns
  <2>1. s.party[i] \in Party
    BY <1>1, ElementOfSeq
  <2> QED
    BY <2>1 DEF Party
<1> QED
  BY <1>2, <1>3 DEF Keys

LEMMA EverybodyStays ==
  ASSUME HubInv, Keeps, NEW code, NEW keys, Everybody(keys, code)
  PROVE  Everybody(keys, code)'
<1>1. session[code] \in Session /\ code \in Sessions
  BY DEF HubInv, StateTypes, Everybody
<1>2. Len(session[code].party) = session[code].size
  BY <1>1, KeysAll DEF Everybody
<1> QED
  BY <1>1, <1>2 DEF Keeps, Everybody

(* What was well said stays so. *)
LEMMA StillOk ==
  ASSUME HubInv, StateTypes', Keeps
  PROVE  /\ OkRequests \subseteq OkRequests'
         /\ \A c \in Conns : OkMessages(c) \subseteq OkMessages(c)'
         /\ \A c \in Conns : seat'[c].code = seat[c].code => OkWrites(c) \subseteq OkWrites(c)'
<1>1. OkRequests \subseteq OkRequests'
  BY AnnouncedStays DEF OkRequests
<1>2. ASSUME NEW c \in Conns, NEW m \in OkMessages(c) PROVE m \in OkMessages(c)'
  <2>1. m.type = "created" => m.partyId = 0 /\ Announced(m.session)'
    BY <1>2, AnnouncedStays DEF OkMessages
  <2>2. CASE m.type = "ready"
    <3>1. pc[c] \in {"read", "leave"} /\ Everybody(m.keys, seat[c].code)
      BY <1>2, <2>2 DEF OkMessages
    <3>2. seat[c] # NoSeat
      BY <3>1, NoneIsNoSession DEF HubInv, Everybody
    <3>3. seat'[c] = seat[c] /\ pc'[c] \in {"read", "leave"}
      BY <3>1, <3>2 DEF Keeps
    <3>4. Everybody(m.keys, seat[c].code)'
      <4>1. session'[seat[c].code].size = session[seat[c].code].size
        BY <3>1 DEF Keeps, Everybody
      <4>2. seat[c].code \in Sessions' /\ m.keys = Keys(session'[seat'[c].code])
        BY <3>1, <3>3, EverybodyStays DEF Everybody
      <4> QED
        BY <3>1, <3>3, <4>1, <4>2 DEF Everybody
    <3> QED
      BY <1>2, <2>1, <3>3, <3>4 DEF OkMessages
  <2>3. CASE m.type # "ready"
    BY <1>2, <2>1, <2>3 DEF OkMessages
  <2> QED
    BY <2>2, <2>3
<1>3. ASSUME NEW c \in Conns, seat'[c].code = seat[c].code, NEW w \in OkWrites(c)
      PROVE  w \in OkWrites(c)'
  <2>1. w \in WriteOrder /\ w.code = seat'[c].code /\ w.code \in Sessions'
    BY <1>3 DEF OkWrites, Keeps
  <2>2. w.party \in Nat /\ session[w.code] \in Session /\ w.code \in Sessions
    BY <1>3 DEF OkWrites, WriteOrder, HubInv, StateTypes
  <2>3. ~w.all => w.party < Len(session'[w.code].party)
    <3>1. /\ Len(session[w.code].party) \in Nat
          /\ Len(session[w.code].party) <= Len(session'[w.code].party)
          /\ ~w.all => w.party < Len(session[w.code].party)
      BY <1>3, <2>2, KeysAll DEF Keeps, OkWrites
    <3>2. Len(session'[w.code].party) \in Nat
      <4>1. session'[w.code] \in Session
        BY <2>1 DEF StateTypes
      <4> QED
        BY <4>1, KeysAll
    <3> QED
      BY <2>2, <3>1, <3>2
  <2>4. w.msg.type = "ready" => Everybody(w.msg.keys, w.code)'
    BY <1>3, EverybodyStays DEF OkWrites
  <2> QED
    BY <1>3, <2>1, <2>3, <2>4 DEF OkWrites
<1> QED
  BY <1>1, <1>2, <1>3

-----------------------------------------------------------------------------
(* Queues under a step: each is as it was, or grew or lost something good. *)
LEMMA QueuesStay ==
  ASSUME HubInv, StateTypes', Keeps
  PROVE  \A c \in Conns :
           /\ inbox[c] \in Seq(OkRequests')
           /\ wire[c] \in Seq(OkMessages(c)')
           /\ seat'[c].code = seat[c].code => todo[c] \in Seq(OkWrites(c)')
<1> SUFFICES ASSUME NEW c \in Conns
             PROVE  /\ inbox[c] \in Seq(OkRequests')
                    /\ wire[c] \in Seq(OkMessages(c)')
                    /\ seat'[c].code = seat[c].code => todo[c] \in Seq(OkWrites(c)')
  OBVIOUS
<1>1. inbox[c] \in Seq(OkRequests) /\ wire[c] \in Seq(OkMessages(c)) /\ todo[c] \in Seq(OkWrites(c))
  BY DEF HubInv, QueuesOk
<1> QED
  BY <1>1, StillOk, SeqMonotonic

\* Taking a request.
LEMMA TakeInbox ==
  ASSUME HubInv, StateTypes', Keeps, NEW c \in Conns, NEW type, Take(c, type)
  PROVE  /\ DOMAIN inbox' = Conns /\ \A d \in Conns : inbox'[d] \in Seq(OkRequests')
         /\ Head(inbox[c]) \in OkRequests /\ Head(inbox[c]).type = type
<1>1. inbox[c] \in Seq(OkRequests) /\ inbox[c] # <<>>
  BY DEF Take, HubInv, QueuesOk
<1>2. Head(inbox[c]) \in OkRequests /\ Tail(inbox[c]) \in Seq(OkRequests)
  BY <1>1, HeadTailProperties
<1>3. Tail(inbox[c]) \in Seq(OkRequests')
  BY <1>2, StillOk, SeqMonotonic
<1>4. \A d \in Conns : inbox[d] \in Seq(OkRequests')
  BY QueuesStay
<1> QED
  BY <1>2, <1>3, <1>4 DEF Take, HubInv, StateTypes

LEMMA SameOk ==
  ASSUME UNCHANGED <<pc, seat, session>>
  PROVE  /\ OkRequests' = OkRequests
         /\ \A c \in Conns : OkMessages(c)' = OkMessages(c) /\ OkWrites(c)' = OkWrites(c)
  BY DEF OkRequests, OkMessages, OkWrites, Announced, Everybody, Sessions

(* Steps that change no seat and no session. *)
LEMMA QuietStep ==
  ASSUME HubInv, UNCHANGED <<pc, seat, session>>, listed' \subseteq listed,
         link' \in [Conns -> {"none", "upgrading", "open", "gone", "closed"}],
         \A c \in Conns : pc[c] # "leave" /\ link[c] \in {"open", "gone"}
                            => link'[c] \in {"open", "gone"},
         \A c \in Conns : link[c] \in {"gone", "closed"} => link'[c] \in {"gone", "closed"},
         DOMAIN inbox' = Conns, DOMAIN wire' = Conns, DOMAIN todo' = Conns,
         \A c \in Conns :
           /\ inbox'[c] \in Seq(OkRequests)
           /\ wire'[c] \in Seq(OkMessages(c))
           /\ todo'[c] \in Seq(OkWrites(c))
           /\ todo[c] = <<>> /\ pc[c] # "leave" => todo'[c] = <<>>
  PROVE  HubInv'
<1>1. StateTypes'
  BY DEF HubInv, StateTypes, Sessions
<1>2. QueuesOk'
  BY SameOk DEF QueuesOk
<1>3. SeatsOk'
  BY DEF HubInv, SeatsOk, Sessions
<1>4. Unentered' /\ Rooms'
  BY DEF HubInv, Unentered, Rooms, Sessions
<1>5. Attached'
  <2> SUFFICES ASSUME NEW code \in Sessions, NEW i \in 1 .. Len(session[code].party),
                      session[code].party[i].connected
               PROVE  /\ session[code].party[i].conn \in Conns
                      /\ seat[session[code].party[i].conn] = Seat(code, i - 1)
                      /\ pc[session[code].party[i].conn] = "read"
                      /\ link'[session[code].party[i].conn] \in {"open", "gone"}
    BY DEF Attached, Sessions
  <2>1. /\ session[code].party[i].conn \in Conns
        /\ seat[session[code].party[i].conn] = Seat(code, i - 1)
        /\ pc[session[code].party[i].conn] = "read"
        /\ link[session[code].party[i].conn] \in {"open", "gone"}
    BY DEF HubInv, Attached
  <2> QED
    BY <2>1
<1> QED
  BY <1>1, <1>2, <1>3, <1>4, <1>5 DEF HubInv

LEMMA SameFlags ==
  ASSUME HubInv, NEW c \in Conns, UNCHANGED <<pc, seat>>,
         \A x \in Sessions : session'[x].party = session[x].party
  PROVE  KeptBy(c)
<1> SUFFICES ASSUME NEW d \in Conns, pc'[d] = "read", seat'[d] # NoSeat
             PROVE  Flag(d)' \/ (pc[d] = "read" /\ seat'[d] = seat[d] /\ ~Flag(d))
  BY DEF KeptBy
<1>1. seat[d].code \in Sessions
  BY DEF HubInv, SeatsOk
<1> QED
  BY <1>1 DEF Flag

LEMMA QueuesNow ==
  ASSUME HubInv, NEW c \in Conns
  PROVE  /\ inbox[c] \in Seq(OkRequests) /\ wire[c] \in Seq(OkMessages(c))
         /\ todo[c] \in Seq(OkWrites(c))
  BY DEF HubInv, QueuesOk

\* A request refused.
LEMMA RefusedStep ==
  ASSUME HubInv, NEW c \in Conns, NEW type, Take(c, type), SendError(c)
  PROVE  HubInv' /\ KeptBy(c)
<1>1. inbox[c] # <<>> /\ inbox' = [inbox EXCEPT ![c] = Tail(@)]
  BY DEF Take
<1>2. Tail(inbox[c]) \in Seq(OkRequests)
  BY <1>1, QueuesNow, HeadTailProperties
<1>3. [type |-> "error"] \in OkMessages(c)
  BY DEF OkMessages, Message
<1>4. Append(wire[c], [type |-> "error"]) \in Seq(OkMessages(c))
  BY <1>3, QueuesNow, AppendProperties
<1>5. \A d \in Conns : inbox'[d] \in Seq(OkRequests) /\ wire'[d] \in Seq(OkMessages(d))
                        /\ todo'[d] \in Seq(OkWrites(d))
  BY <1>1, <1>2, <1>4, QueuesNow DEF SendError, HubInv, StateTypes
<1> QED
  <2>1. HubInv'
    BY <1>1, <1>5, QuietStep DEF SendError, HubInv, StateTypes
  <2> QED
    BY <2>1, SameFlags DEF SendError

\* What happens to connections.
LEMMA NetworkStep ==
  ASSUME HubInv, NEW c \in Conns, Network(c) \/ Release(c)
  PROVE  HubInv'
<1>1. UNCHANGED <<inbox, wire, pc, todo, seat, session, listed>>
  BY DEF Network, AddIP, Accept, AcceptFails, Hangup, Release
<1>2. /\ link' \in [Conns -> {"none", "upgrading", "open", "gone", "closed"}]
      /\ \A d \in Conns : pc[d] # "leave" /\ link[d] \in {"open", "gone"}
                             => link'[d] \in {"open", "gone"}
      /\ \A d \in Conns : link[d] \in {"gone", "closed"} => link'[d] \in {"gone", "closed"}
  BY DEF Network, AddIP, Accept, AcceptFails, Hangup, Release, HubInv, StateTypes
<1> QED
  BY <1>1, <1>2, QueuesNow, QuietStep DEF HubInv, StateTypes

-----------------------------------------------------------------------------
(* Writes. *)
LEMMA OthersInRange ==
  ASSUME NEW n \in Nat, NEW exclude \in Nat
  PROVE  /\ Others(n, exclude) \in Seq(0 .. n - 1)
         /\ DOMAIN Others(n, exclude) = 1 .. Len(Others(n, exclude))
<1>1. CASE exclude < n
  <2>1. n - 1 \in Nat
    BY <1>1
  <2>2. [i \in 1 .. n - 1 |-> IF i <= exclude THEN i - 1 ELSE i] \in [1 .. n - 1 -> 0 .. n - 1]
    BY <1>1
  <2> QED
    BY <1>1, <2>1, <2>2, SeqDef DEF Others
<1>2. CASE ~(exclude < n)
  BY <1>2 DEF Others
<1> QED
  BY <1>1, <1>2

\* Two seats of the same session and number are the same seat.
LEMMA SeatParts ==
  ASSUME StateTypes, NEW c \in Conns, NEW d \in Conns
  PROVE  /\ seat[c].id \in Nat
         /\ seat[c].code = seat[d].code /\ seat[c].id = seat[d].id => seat[c] = seat[d]
  BY DEF StateTypes, Token

LEMMA AttachedNow ==
  ASSUME HubInv, NEW code \in Sessions, NEW i \in 1 .. Len(session[code].party),
         session[code].party[i].connected
  PROVE  LET p == session[code].party[i] IN
         /\ p.conn \in Conns /\ seat[p.conn] = Seat(code, i - 1)
         /\ pc[p.conn] = "read" /\ link[p.conn] \in {"open", "gone"}
  BY DEF HubInv, Attached

\* Nobody that is past its handler sits in a session being created.
LEMMA SeatedAnnounced ==
  ASSUME HubInv, NEW c \in Conns, pc[c] # "create", seat[c].code \in Sessions
  PROVE  Announced(seat[c].code)
<1> SUFFICES ASSUME NEW d \in Conns, pc[d] = "create", seat[d].code = seat[c].code
             PROVE  FALSE
  BY DEF Announced
<1>1. c \in Conns \ {d}
  OBVIOUS
<1> QED
  BY <1>1 DEF HubInv, Unentered

\* What reaches a party reaches a connection that sits in its seat.
LEMMA Delivered ==
  ASSUME HubInv, NEW c \in Conns, NEW w \in OkWrites(c), ~w.all,
         session[w.code].party[w.party + 1].connected
  PROVE  LET d == session[w.code].party[w.party + 1].conn IN
         d \in Conns /\ w.msg \in OkMessages(d)
<1>1. /\ w.msg \in Message /\ w.party \in Nat /\ w.code \in Sessions
      /\ w.party < Len(session[w.code].party)
      /\ w.msg.type = "created" => w.msg.partyId = 0 /\ w.msg.session = w.code
      /\ w.msg.type = "ready" => Everybody(w.msg.keys, w.code)
  BY DEF OkWrites, WriteOrder
<1>2. session[w.code] \in Session
  BY <1>1 DEF HubInv, StateTypes
<1>3. w.party + 1 \in 1 .. Len(session[w.code].party)
  BY <1>1, <1>2, KeysAll
<1>4. PICK d : d = session[w.code].party[w.party + 1].conn
  OBVIOUS
<1>5. /\ d \in Conns /\ seat[d] = Seat(w.code, w.party + 1 - 1) /\ pc[d] = "read"
  BY <1>1, <1>3, <1>4, AttachedNow
<1>6. seat[d].code = w.code
  BY <1>5 DEF Seat
<1>7. Announced(w.code)
  BY <1>1, <1>5, <1>6, SeatedAnnounced
<1>8. w.msg \in OkMessages(d)
  BY <1>1, <1>5, <1>6, <1>7 DEF OkMessages
<1> QED
  BY <1>4, <1>5, <1>8

\* A broadcast as the writes it stands for.
Copied(w, n) ==
  [i \in DOMAIN Others(n, w.party) |-> Send(w.code, Others(n, w.party)[i], w.msg)]

LEMMA CopiedGood ==
  ASSUME NEW w, NEW n \in Nat, w.party \in Nat, NEW S,
         \A i \in 0 .. n - 1 : Send(w.code, i, w.msg) \in S
  PROVE  Copied(w, n) \in Seq(S)
<1>1. PICK ids : ids = Others(n, w.party)
  OBVIOUS
<1>2. ids \in Seq(0 .. n - 1) /\ DOMAIN ids = 1 .. Len(ids)
  BY <1>1, OthersInRange
<1>3. Len(ids) \in Nat
  BY <1>2, LenProperties
<1>4. ASSUME NEW i \in 1 .. Len(ids) PROVE Send(w.code, ids[i], w.msg) \in S
  <2>1. ids[i] \in 0 .. n - 1
    BY <1>2, ElementOfSeq
  <2> QED
    BY <2>1
<1>5. [i \in DOMAIN ids |-> Send(w.code, ids[i], w.msg)] \in [1 .. Len(ids) -> S]
  BY <1>2, <1>4
<1>6. Copied(w, n) \in [1 .. Len(ids) -> S]
  BY <1>1, <1>5 DEF Copied
<1> QED
  BY <1>3, <1>6, SeqDef

\* What a write does, with names for what it reads.
WriteDoes(c, w, p, n) ==
  /\ todo[c] # <<>> /\ w = Head(todo[c])
  /\ p = session[w.code].party[w.party + 1] /\ n = Len(session[w.code].party)
  /\ todo' = [todo EXCEPT ![c] = IF w.all THEN Copied(w, n) \o Tail(todo[c])
                                          ELSE Tail(todo[c])]
  /\ ~w.all /\ p.connected =>
       wire' = [wire EXCEPT ![p.conn] = Append(wire[p.conn], w.msg)]
  /\ w.all \/ ~p.connected => wire' = wire

LEMMA WriteIs ==
  ASSUME HubInv, NEW c \in Conns, Write(c)
  PROVE  \E w \in OkWrites(c) : \E p : \E n \in Nat : WriteDoes(c, w, p, n)
<1>1. todo[c] # <<>>
  BY Zenon DEF Write
<1>2. Head(todo[c]) \in OkWrites(c)
  BY <1>1, QueuesNow, HeadTailProperties
<1>3. PICK w \in OkWrites(c) : w = Head(todo[c])
  BY <1>2
<1>4. w.code \in Sessions
  BY <1>3 DEF OkWrites
<1>5. Len(session[w.code].party) \in Nat
  BY <1>4, KeysAll DEF HubInv, StateTypes
<1>6. PICK n \in Nat : n = Len(session[w.code].party)
  BY <1>5
<1>7. PICK p : p = session[w.code].party[w.party + 1]
  OBVIOUS
<1>8. todo' = [todo EXCEPT ![c] = IF w.all THEN Copied(w, n) \o Tail(todo[c])
                                           ELSE Tail(todo[c])]
  <2>1. CASE w.all
    BY Zenon, <1>3, <1>6, <2>1 DEF Write, Copied
  <2>2. CASE ~w.all
    BY Zenon, <1>3, <2>2 DEF Write
  <2> QED
    BY <2>1, <2>2
<1>9. /\ ~w.all /\ p.connected =>
           wire' = [wire EXCEPT ![p.conn] = Append(wire[p.conn], w.msg)]
      /\ w.all \/ ~p.connected => wire' = wire
  BY Zenon, <1>3, <1>7 DEF Write
<1>10. WriteDoes(c, w, p, n)
  BY Zenon, <1>1, <1>3, <1>6, <1>7, <1>8, <1>9 DEF WriteDoes
<1> QED
  BY <1>10

LEMMA WriteStep ==
  ASSUME HubInv, NEW c \in Conns, Write(c)
  PROVE  HubInv' /\ KeptBy(c)
<1>1. PICK w \in OkWrites(c) : \E p : \E n \in Nat : WriteDoes(c, w, p, n)
  BY WriteIs
<1>2. PICK p : \E n \in Nat : WriteDoes(c, w, p, n)
  BY <1>1
<1>3. PICK n \in Nat : WriteDoes(c, w, p, n)
  BY <1>2
<1>4. /\ w \in WriteOrder /\ w.code = seat[c].code /\ w.code \in Sessions
      /\ ~w.all => w.party < Len(session[w.code].party)
      /\ w.msg.type = "created" => w.msg.partyId = 0 /\ w.msg.session = w.code
      /\ w.msg.type = "ready" => Everybody(w.msg.keys, w.code)
  BY DEF OkWrites
<1>5. w.party \in Nat /\ w.msg \in Message
  BY <1>4 DEF WriteOrder
<1>6. n = Len(session[w.code].party) /\ p = session[w.code].party[w.party + 1]
  BY Zenon, <1>3 DEF WriteDoes
<1>7. Tail(todo[c]) \in Seq(OkWrites(c))
  BY Zenon, <1>3, QueuesNow, HeadTailProperties DEF WriteDoes
<1>8. Copied(w, n) \in Seq(OkWrites(c))
  <2>1. ASSUME NEW i \in 0 .. n - 1 PROVE Send(w.code, i, w.msg) \in OkWrites(c)
    <3>1. Send(w.code, i, w.msg) \in WriteOrder
      BY <1>4, <1>5 DEF Send, WriteOrder
    <3>2. i < n
      OBVIOUS
    <3>3. PICK x : x = Send(w.code, i, w.msg)
      OBVIOUS
    <3>4. x.all = FALSE /\ x.party = i /\ x.code = w.code /\ x.msg = w.msg
      BY <3>3 DEF Send
    <3>5. x.party < Len(session[x.code].party)
      BY <1>6, <3>2, <3>4
    <3>6. x \in OkWrites(c)
      BY <1>4, <3>1, <3>3, <3>4, <3>5 DEF OkWrites
    <3> QED
      BY <3>3, <3>6
  <2> QED
    BY <1>5, <2>1, CopiedGood
<1>9. /\ DOMAIN todo' = Conns /\ todo'[c] \in Seq(OkWrites(c))
      /\ \A d \in Conns : d # c => todo'[d] = todo[d]
  <2>1. PICK q \in Seq(OkWrites(c)) :
          q = IF w.all THEN Copied(w, n) \o Tail(todo[c]) ELSE Tail(todo[c])
    BY <1>7, <1>8, ConcatProperties
  <2>2. todo' = [todo EXCEPT ![c] = q]
    BY Zenon, <1>3, <2>1 DEF WriteDoes
  <2>3. DOMAIN todo = Conns
    BY DEF HubInv, StateTypes
  <2> QED
    BY <2>2, <2>3
<1>10. DOMAIN wire' = Conns /\ \A d \in Conns : wire'[d] \in Seq(OkMessages(d))
  <2>1. DOMAIN wire = Conns /\ \A d \in Conns : wire[d] \in Seq(OkMessages(d))
    BY QueuesNow DEF HubInv, StateTypes
  <2>2. CASE w.all \/ ~p.connected
    BY Zenon, <1>3, <2>1, <2>2 DEF WriteDoes
  <2>3. CASE ~w.all /\ p.connected
    <3>1. p.conn \in Conns /\ w.msg \in OkMessages(p.conn)
      BY <1>6, <2>3, Delivered
    <3>2. PICK q \in Seq(OkMessages(p.conn)) : q = Append(wire[p.conn], w.msg)
      BY <2>1, <3>1, AppendProperties
    <3>3. wire' = [wire EXCEPT ![p.conn] = q]
      BY Zenon, <1>3, <2>3, <3>2 DEF WriteDoes
    <3> QED
      BY <2>1, <3>1, <3>2, <3>3
  <2> QED
    BY <2>2, <2>3
<1>11. UNCHANGED <<link, inbox, pc, seat, session, listed>>
  BY Zenon DEF Write
<1>12. \A d \in Conns : todo'[d] \in Seq(OkWrites(d))
  BY <1>9, QueuesNow
<1>13. todo[c] # <<>>
  BY Zenon, <1>3 DEF WriteDoes
<1> QED
  <2>1. HubInv'
    BY <1>9, <1>10, <1>11, <1>12, <1>13, QueuesNow, QuietStep DEF HubInv, StateTypes
  <2> QED
    BY <1>11, <2>1, SameFlags

-----------------------------------------------------------------------------
(* A goroutine that has no seat takes one: between the two halves of a     *)
(* join or a reconnection.                                                 *)
LEMMA SeatTaken ==
  ASSUME HubInv, NEW c \in Conns, NEW type, Take(c, type), seat[c] = NoSeat,
         NEW t \in Token, Announced(t.code),
         NEW half \in {"join", "reconnect"},
         half = "reconnect" => t.id < Len(session[t.code].party),
         pc' = [pc EXCEPT ![c] = half], seat' = [seat EXCEPT ![c] = t],
         UNCHANGED <<link, wire, todo, session, listed>>
  PROVE  HubInv' /\ KeptBy(c)
<1>1. /\ pc[c] = "read" /\ todo[c] = <<>> /\ link[c] \in {"open", "gone"}
      /\ inbox' = [inbox EXCEPT ![c] = Tail(@)]
  BY DEF Take, Reading
<1>2. t.code \in Sessions /\ t # NoSeat
  BY RelayAssumption DEF Announced, NoSeat, Seat, HubInv, StateTypes
<1>3. StateTypes'
  BY <1>1 DEF HubInv, StateTypes, Sessions
<1>4. Keeps
  BY <1>1 DEF Keeps, HubInv, StateTypes, Sessions, Session, Announced
<1>5. QueuesOk'
  <2>1. <<>> \in Seq(OkWrites(c)')
    OBVIOUS
  <2>2. \A d \in Conns : inbox'[d] \in Seq(OkRequests')
    BY <1>3, <1>4, TakeInbox
  <2>3. \A d \in Conns : todo'[d] \in Seq(OkWrites(d)')
    <3> SUFFICES ASSUME NEW d \in Conns PROVE todo'[d] \in Seq(OkWrites(d)')
      OBVIOUS
    <3>1. CASE d = c
      BY <1>1, <2>1, <3>1
    <3>2. CASE d # c
      BY <1>3, <1>4, <3>2, QueuesStay DEF HubInv, StateTypes
    <3> QED
      BY <3>1, <3>2
  <2> QED
    BY <1>3, <1>4, <2>2, <2>3, QueuesStay DEF QueuesOk
<1>6. SeatsOk'
  BY <1>1, <1>2 DEF HubInv, SeatsOk, StateTypes, Sessions
<1>7. Unentered'
  BY <1>1 DEF HubInv, Unentered, StateTypes, Sessions, Announced
<1>8. Rooms'
  BY DEF HubInv, Rooms, Sessions
<1>9. Attached'
  <2> SUFFICES ASSUME NEW code \in Sessions, NEW i \in 1 .. Len(session[code].party),
                      session[code].party[i].connected,
                      NEW d, d = session[code].party[i].conn
               PROVE  /\ d \in Conns /\ seat'[d] = Seat(code, i - 1)
                      /\ pc'[d] = "read" /\ link'[d] \in {"open", "gone"}
    BY DEF Attached, Sessions
  <2>1. /\ d \in Conns /\ seat[d] = Seat(code, i - 1)
        /\ pc[d] = "read" /\ link[d] \in {"open", "gone"}
    BY AttachedNow
  <2>2. d # c
    BY <2>1, NoneIsNoSession DEF HubInv, Seat
  <2> QED
    BY <2>1, <2>2 DEF HubInv, StateTypes
<1>10. KeptBy(c)
  BY DEF KeptBy, Flag, HubInv, StateTypes
<1> QED
  BY <1>3, <1>5, <1>6, <1>7, <1>8, <1>9, <1>10 DEF HubInv

LEMMA HandleJoinStep ==
  ASSUME HubInv, NEW c \in Conns, HandleJoin(c)
  PROVE  HubInv' /\ KeptBy(c)
<1>1. PICK code : code = Head(inbox[c]).session
  OBVIOUS
<1>2. Take(c, "join")
  BY DEF HandleJoin
<1>3. CASE SendError(c)
  BY <1>2, <1>3, RefusedStep
<1>4. CASE ~SendError(c)
  <2>1. /\ seat[c] = NoSeat
        /\ pc' = [pc EXCEPT ![c] = "join"] /\ seat' = [seat EXCEPT ![c] = Seat(code, 0)]
        /\ UNCHANGED <<link, wire, todo, session, listed>>
    BY <1>1, <1>4 DEF HandleJoin
  <2>2. Head(inbox[c]) \in OkRequests /\ Head(inbox[c]).type = "join"
    <3>1. inbox[c] \in Seq(OkRequests) /\ inbox[c] # <<>> /\ Head(inbox[c]).type = "join"
      BY <1>2, QueuesNow DEF Take
    <3> QED
      BY <3>1, HeadTailProperties
  <2>3. Announced(code)
    BY <1>1, <2>2 DEF OkRequests
  <2>4. Seat(code, 0) \in Token /\ Seat(code, 0).code = code
    BY <2>3 DEF Token, Seat, Announced, HubInv, StateTypes
  <2> QED
    BY <1>2, <2>1, <2>3, <2>4, SeatTaken
<1> QED
  BY <1>3, <1>4

LEMMA HandleReconnectStep ==
  ASSUME HubInv, NEW c \in Conns, HandleReconnect(c)
  PROVE  HubInv' /\ KeptBy(c)
<1>1. PICK t : t = Head(inbox[c]).token
  OBVIOUS
<1>2. Take(c, "reconnect")
  BY DEF HandleReconnect
<1>3. CASE SendError(c)
  BY <1>2, <1>3, RefusedStep
<1>4. CASE ~SendError(c)
  <2>1. /\ seat[c] = NoSeat /\ t.code \in listed /\ t.id \in Parties(session[t.code])
        /\ pc' = [pc EXCEPT ![c] = "reconnect"] /\ seat' = [seat EXCEPT ![c] = t]
        /\ UNCHANGED <<link, wire, todo, session, listed>>
    BY <1>1, <1>4 DEF HandleReconnect
  <2>2. Head(inbox[c]) \in OkRequests /\ Head(inbox[c]).type = "reconnect"
    <3>1. inbox[c] \in Seq(OkRequests) /\ inbox[c] # <<>> /\ Head(inbox[c]).type = "reconnect"
      BY <1>2, QueuesNow DEF Take
    <3> QED
      BY <3>1, HeadTailProperties
  <2>3. t \in Token
    BY <1>1, <2>2 DEF OkRequests, Asked
  <2>4. t.code \in Sessions /\ session[t.code] \in Session
    BY <2>1 DEF HubInv, StateTypes
  <2>5. t.id < Len(session[t.code].party)
    BY <2>1, <2>3, <2>4, KeysAll DEF Parties, Token
  <2>6. Announced(t.code)
    <3> SUFFICES ASSUME NEW d \in Conns, pc[d] = "create", seat[d].code = t.code
                 PROVE  FALSE
      BY <2>4 DEF Announced
    <3>1. session[t.code].party = <<>>
      BY DEF HubInv, Unentered
    <3> QED
      BY <2>3, <2>5, <3>1, EmptySeq DEF Token
  <2> QED
    BY <1>2, <2>1, <2>3, <2>5, <2>6, SeatTaken
<1> QED
  BY <1>3, <1>4

-----------------------------------------------------------------------------
(* A new session, with its creator still outside. *)
LEMMA HandleCreateStep ==
  ASSUME HubInv, NEW c \in Conns, HandleCreate(c)
  PROVE  HubInv' /\ KeptBy(c)
<1>1. Take(c, "create")
  BY DEF HandleCreate
<1>2. CASE SendError(c)
  BY <1>1, <1>2, RefusedStep
<1>3. CASE ~SendError(c)
  <2> DEFINE n == Head(inbox[c]).parties
  <2>1. /\ seat[c] = NoSeat /\ ~(n < 2)
        /\ \E code \in Codes \ Sessions :
             /\ session' = [x \in Sessions \cup {code} |->
                              IF x = code THEN NewSession(n) ELSE session[x]]
             /\ listed' = listed \cup {code}
             /\ pc' = [pc EXCEPT ![c] = "create"]
             /\ seat' = [seat EXCEPT ![c] = Seat(code, 0)]
             /\ UNCHANGED <<link, wire, todo, ipConns>>
    BY <1>3 DEF HandleCreate, Sessions
  <2>2. PICK code \in Codes \ Sessions :
             /\ session' = [x \in Sessions \cup {code} |->
                              IF x = code THEN NewSession(n) ELSE session[x]]
             /\ listed' = listed \cup {code}
             /\ pc' = [pc EXCEPT ![c] = "create"]
             /\ seat' = [seat EXCEPT ![c] = Seat(code, 0)]
             /\ UNCHANGED <<link, wire, todo, ipConns>>
    BY <2>1
  <2>3. n \in Nat
    <3>1. inbox[c] \in Seq(OkRequests) /\ inbox[c] # <<>> /\ Head(inbox[c]).type = "create"
      BY <1>1, QueuesNow DEF Take
    <3>2. Head(inbox[c]) \in Asked
      BY <3>1, HeadTailProperties DEF OkRequests
    <3> QED
      BY <3>1, <3>2 DEF Asked
  <2>4. NewSession(n) \in Session /\ Len(NewSession(n).party) = 0
    BY <2>3, EmptySeq DEF NewSession, Session
  <2> HIDE DEF n
  <2>5. /\ pc[c] = "read" /\ todo[c] = <<>> /\ link[c] \in {"open", "gone"}
        /\ inbox' = [inbox EXCEPT ![c] = Tail(@)]
    BY <1>1 DEF Take, Reading
  <2>6. /\ Sessions' = Sessions \cup {code}
        /\ session'[code] = NewSession(n)
        /\ \A x \in Sessions : session'[x] = session[x]
    BY <2>2 DEF Sessions
  <2>7. Seat(code, 0) \in Token /\ Seat(code, 0).code = code /\ Seat(code, 0) # NoSeat
    BY RelayAssumption DEF Token, Seat, NoSeat
  <2>8. \A d \in Conns : seat[d].code # code
    BY RelayAssumption DEF HubInv, SeatsOk, NoSeat, Seat
  <2>9. StateTypes'
    <3>1. session' \in [Sessions' -> Session]
      BY <2>2, <2>4, <2>6 DEF HubInv, StateTypes
    <3> QED
      BY <2>2, <2>5, <2>6, <2>7, <3>1 DEF HubInv, StateTypes
  <2>10. \A d \in Conns \ {c} : seat'[d] = seat[d] /\ pc'[d] = pc[d]
    BY <2>2 DEF HubInv, StateTypes
  <2>11. seat'[c] = Seat(code, 0) /\ pc'[c] = "create"
    BY <2>2 DEF HubInv, StateTypes
  <2>12. Keeps
    <3>1. \A x \in Sessions : Len(session[x].party) \in Nat
      BY KeysAll DEF HubInv, StateTypes
    <3> QED
      BY <2>1, <2>6, <2>7, <2>10, <2>11, <3>1 DEF Keeps
  <2>13. QueuesOk'
    <3>1. \A d \in Conns : todo'[d] \in Seq(OkWrites(d)')
      <4> SUFFICES ASSUME NEW d \in Conns PROVE todo'[d] \in Seq(OkWrites(d)')
        OBVIOUS
      <4>1. CASE d = c
        <5>1. todo'[d] = <<>>
          BY <2>2, <2>5, <4>1
        <5> QED
          BY <5>1
      <4>2. CASE d # c
        BY <2>2, <2>9, <2>10, <2>12, <4>2, QueuesStay
      <4> QED
        BY <4>1, <4>2
    <3> QED
      BY <1>1, <2>2, <2>9, <2>12, <3>1, TakeInbox, QueuesStay DEF QueuesOk
  <2>14. SeatsOk'
    <3> SUFFICES ASSUME NEW d \in Conns
                 PROVE  /\ pc'[d] \in {"create", "join", "reconnect"} =>
                              seat'[d] # NoSeat /\ todo'[d] = <<>> /\ link'[d] \in {"open", "gone"}
                        /\ pc'[d] = "leave" => link'[d] \in {"gone", "closed"}
                        /\ seat'[d] # NoSeat => seat'[d].code \in Sessions'
                        /\ seat'[d] # NoSeat /\ pc'[d] \in {"read", "leave", "reconnect"} =>
                              seat'[d].id < Len(session'[seat'[d].code].party)
      BY DEF SeatsOk, NoSeat, Seat
    <3>1. CASE d = c
      BY <2>2, <2>5, <2>6, <2>7, <2>11, <3>1
    <3>2. CASE d # c
      BY <2>2, <2>6, <2>10, <3>2 DEF HubInv, SeatsOk
    <3> QED
      BY <3>1, <3>2
  <2>15. Unentered'
    <3> SUFFICES ASSUME NEW d \in Conns, pc'[d] = "create"
                 PROVE  /\ session'[seat'[d].code].party = <<>>
                        /\ \A e \in Conns \ {d} : seat'[e].code # seat'[d].code
      BY DEF Unentered
    <3>1. CASE d = c
      BY <2>6, <2>7, <2>8, <2>10, <2>11, <3>1 DEF NewSession
    <3>2. CASE d # c
      <4>1. pc[d] = "create" /\ seat'[d] = seat[d] /\ seat[d].code \in Sessions
        BY <2>10, <3>2 DEF HubInv, SeatsOk
      <4>2. /\ session[seat[d].code].party = <<>>
            /\ \A e \in Conns \ {d} : seat[e].code # seat[d].code
        BY <4>1 DEF HubInv, Unentered
      <4> QED
        BY <2>6, <2>7, <2>8, <2>10, <2>11, <4>1, <4>2
    <3> QED
      BY <3>1, <3>2
  <2>16. Rooms'
    <3> SUFFICES ASSUME NEW x \in Sessions'
                 PROVE  /\ 2 <= session'[x].size /\ Len(session'[x].party) <= session'[x].size
                        /\ session'[x].ready <=> Len(session'[x].party) = session'[x].size
      BY DEF Rooms
    <3>1. CASE x = code
      BY <2>1, <2>3, <2>4, <2>6, <3>1 DEF NewSession, n
    <3>2. CASE x # code
      BY <2>6, <3>2 DEF HubInv, Rooms
    <3> QED
      BY <3>1, <3>2
  <2>17. Attached'
    <3> SUFFICES ASSUME NEW x \in Sessions', NEW i \in 1 .. Len(session'[x].party),
                        session'[x].party[i].connected,
                        NEW d, d = session'[x].party[i].conn
                 PROVE  /\ d \in Conns /\ seat'[d] = Seat(x, i - 1)
                        /\ pc'[d] = "read" /\ link'[d] \in {"open", "gone"}
      BY DEF Attached
    <3>1. x # code
      BY <2>4, <2>6
    <3>2. x \in Sessions /\ session'[x] = session[x]
      BY <2>6, <3>1
    <3>3. /\ d \in Conns /\ seat[d] = Seat(x, i - 1)
          /\ pc[d] = "read" /\ link[d] \in {"open", "gone"}
      BY <3>2, AttachedNow
    <3>4. d # c
      BY <2>1, <3>2, <3>3, NoneIsNoSession DEF HubInv, Seat
    <3>5. link' = link
      BY <2>2
    <3>6. d \in Conns \ {c}
      BY <3>3, <3>4
    <3>7. seat'[d] = seat[d] /\ pc'[d] = pc[d]
      BY <2>10, <3>6
    <3> QED
      BY <3>3, <3>5, <3>7
  <2>18. KeptBy(c)
    <3> SUFFICES ASSUME NEW d \in Conns, pc'[d] = "read", seat'[d] # NoSeat
                 PROVE  Flag(d)' \/ (pc[d] = "read" /\ seat'[d] = seat[d] /\ ~Flag(d))
      BY DEF KeptBy
    <3>1. pc[d] = "read" /\ seat'[d] = seat[d] /\ seat[d].code \in Sessions
      BY <2>10, <2>11 DEF HubInv, SeatsOk
    <3> QED
      BY <2>6, <3>1 DEF Flag
  <2> QED
    BY <2>9, <2>13, <2>14, <2>15, <2>16, <2>17, <2>18 DEF HubInv
<1> QED
  BY <1>2, <1>3

-----------------------------------------------------------------------------
(* Steps after which the same people are in every session. *)
SamePeople ==
  /\ Sessions' = Sessions /\ session' \in [Sessions -> Session]
  /\ \A x \in Sessions :
       /\ session'[x].size = session[x].size /\ session'[x].ready = session[x].ready
       /\ Len(session'[x].party) = Len(session[x].party)
       /\ \A i \in 1 .. Len(session[x].party) :
            session'[x].party[i].key = session[x].party[i].key

LEMMA SamePeopleStep ==
  ASSUME HubInv, SamePeople, UNCHANGED <<link, seat, listed>>,
         DOMAIN inbox' = Conns, DOMAIN wire' = Conns, DOMAIN todo' = Conns,
         pc' \in [Conns -> {"read", "create", "join", "reconnect", "leave"}],
         \A c \in Conns :
           /\ \/ pc'[c] = pc[c]
              \/ /\ pc[c] \in {"read", "reconnect"} /\ pc'[c] \in {"read", "leave"}
                 /\ pc'[c] = "leave" => link[c] \in {"gone", "closed"}
           /\ pc'[c] \in {"create", "join", "reconnect"} => todo'[c] = todo[c]
  PROVE  StateTypes' /\ Keeps /\ SeatsOk' /\ Unentered' /\ Rooms'
<1>1. \A x \in Sessions : Len(session[x].party) \in Nat
  BY KeysAll DEF HubInv, StateTypes
<1>2. StateTypes'
  BY DEF HubInv, StateTypes, SamePeople
<1>3. Keeps
  <2>1. ASSUME NEW x \in Sessions PROVE Keys(session'[x]) = Keys(session[x])
    BY DEF SamePeople, Keys
  <2> QED
    BY <1>1, <2>1 DEF Keeps, SamePeople
<1>4. SeatsOk'
  <2> SUFFICES ASSUME NEW c \in Conns
               PROVE  /\ pc'[c] \in {"create", "join", "reconnect"} =>
                            seat[c] # NoSeat /\ todo'[c] = <<>> /\ link[c] \in {"open", "gone"}
                      /\ pc'[c] = "leave" => link[c] \in {"gone", "closed"}
                      /\ seat[c] # NoSeat => seat[c].code \in Sessions
                      /\ seat[c] # NoSeat /\ pc'[c] \in {"read", "leave", "reconnect"} =>
                            seat[c].id < Len(session'[seat[c].code].party)
    BY DEF SeatsOk, SamePeople
  <2>1. /\ pc[c] \in {"create", "join", "reconnect"} =>
              seat[c] # NoSeat /\ todo[c] = <<>> /\ link[c] \in {"open", "gone"}
        /\ pc[c] = "leave" => link[c] \in {"gone", "closed"}
        /\ seat[c] # NoSeat => seat[c].code \in Sessions
        /\ seat[c] # NoSeat /\ pc[c] \in {"read", "leave", "reconnect"} =>
              seat[c].id < Len(session[seat[c].code].party)
    BY DEF HubInv, SeatsOk
  <2> QED
    BY <2>1 DEF SamePeople
<1>5. Unentered'
  <2> SUFFICES ASSUME NEW c \in Conns, pc'[c] = "create"
               PROVE  /\ session'[seat[c].code].party = <<>>
                      /\ \A d \in Conns \ {c} : seat[d].code # seat[c].code
    BY DEF Unentered
  <2>1. pc[c] = "create" /\ seat[c].code \in Sessions
    BY DEF HubInv, SeatsOk
  <2>2. /\ session[seat[c].code].party = <<>>
        /\ \A d \in Conns \ {c} : seat[d].code # seat[c].code
    BY <2>1 DEF HubInv, Unentered
  <2>3. session'[seat[c].code].party \in Seq(Party) /\ Len(session'[seat[c].code].party) = 0
    BY <2>1, <2>2, EmptySeq DEF SamePeople, Session
  <2> QED
    BY <2>2, <2>3, EmptySeq
<1>6. Rooms'
  BY DEF HubInv, Rooms, SamePeople
<1> QED
  BY <1>2, <1>3, <1>4, <1>5, <1>6

LEMMA StaleOnly ==
  ASSUME HubInv, NEW code \in Sessions, NEW b \in BOOLEAN,
         session' = [session EXCEPT ![code].stale = b]
  PROVE  /\ SamePeople
         /\ \A x \in Sessions : session'[x].party = session[x].party
<1>1. session[code] \in Session
  BY DEF HubInv, StateTypes
<1> DEFINE t == [session[code] EXCEPT !.stale = b]
<1>2. /\ t \in Session /\ t.party = session[code].party
      /\ t.size = session[code].size /\ t.ready = session[code].ready
  BY <1>1 DEF Session
<1>3. session' = [session EXCEPT ![code] = t]
  BY <1>2
<1> HIDE DEF t
<1>4. /\ Sessions' = Sessions /\ session' \in [Sessions -> Session] /\ session'[code] = t
      /\ \A x \in Sessions : x # code => session'[x] = session[x]
  <2>1. session \in [Sessions -> Session]
    BY DEF HubInv, StateTypes
  <2> QED
    BY <1>2, <1>3, <2>1 DEF Sessions
<1> QED
  BY <1>2, <1>4 DEF SamePeople

\* With the parties and the seats as they were, the rest is too.
LEMMA SamePartiesStep ==
  ASSUME HubInv, SamePeople, UNCHANGED <<link, pc, seat, listed>>,
         \A x \in Sessions : session'[x].party = session[x].party,
         StateTypes', SeatsOk', Unentered', Rooms', QueuesOk'
  PROVE  HubInv'
<1>1. Attached'
  <2> SUFFICES ASSUME NEW x \in Sessions, NEW i \in 1 .. Len(session[x].party),
                      session[x].party[i].connected,
                      NEW d, d = session[x].party[i].conn
               PROVE  /\ d \in Conns /\ seat[d] = Seat(x, i - 1)
                      /\ pc[d] = "read" /\ link[d] \in {"open", "gone"}
    BY DEF Attached, SamePeople
  <2> QED
    BY AttachedNow
<1> QED
  BY <1>1 DEF HubInv

LEMMA TimeoutStep ==
  ASSUME HubInv, AbandonTimeout
  PROVE  HubInv'
<1>1. PICK code \in listed : /\ session' = [session EXCEPT ![code].stale = TRUE]
                             /\ UNCHANGED <<link, inbox, wire, pc, todo, seat, listed>>
  BY DEF AbandonTimeout
<1>2. code \in Sessions
  BY DEF HubInv, StateTypes
<1>3. SamePeople /\ \A x \in Sessions : session'[x].party = session[x].party
  BY <1>1, <1>2, StaleOnly
<1>4. StateTypes' /\ Keeps /\ SeatsOk' /\ Unentered' /\ Rooms'
  BY <1>1, <1>3, SamePeopleStep DEF HubInv, StateTypes
<1>5. QueuesOk'
  BY <1>1, <1>4, QueuesStay DEF QueuesOk
<1> QED
  BY <1>1, <1>3, <1>4, <1>5, SamePartiesStep

LEMMA HandleRelayStep ==
  ASSUME HubInv, NEW c \in Conns, HandleRelay(c)
  PROVE  HubInv' /\ KeptBy(c)
<1>1. Take(c, "relay")
  BY DEF HandleRelay
<1>2. CASE SendError(c)
  BY <1>1, <1>2, RefusedStep
<1>3. CASE ~SendError(c)
  <2>1. PICK m : m = Head(inbox[c])
    OBVIOUS
  <2>2. PICK code, id : code = seat[c].code /\ id = seat[c].id
    OBVIOUS
  <2> DEFINE out == [type |-> "relay", from |-> id, to |-> m.to, payload |-> m.payload]
  <2>3. /\ ~RelayRefused(c, m.to)
        /\ session' = [session EXCEPT ![code].stale = FALSE]
        /\ todo' = [todo EXCEPT ![c] = <<Send(code, m.to, out)>>]
        /\ UNCHANGED <<link, wire, pc, seat, listed>>
    BY <1>3, <2>1, <2>2 DEF HandleRelay
  <2>4. seat[c] # NoSeat /\ m.to \in Parties(session[code]) /\ code \in Sessions
    BY <2>2, <2>3 DEF RelayRefused, HubInv, SeatsOk
  <2>5. SamePeople /\ \A x \in Sessions : session'[x].party = session[x].party
    BY <2>3, <2>4, StaleOnly
  <2>6. pc[c] = "read" /\ DOMAIN inbox' = Conns
    BY <1>1 DEF Take, Reading, HubInv, StateTypes
  <2>7. /\ DOMAIN todo' = Conns /\ todo'[c] = <<Send(code, m.to, out)>>
        /\ \A d \in Conns : d # c => todo'[d] = todo[d]
    BY <2>3 DEF HubInv, StateTypes
  <2>8. StateTypes' /\ Keeps /\ SeatsOk' /\ Unentered' /\ Rooms'
    <3>1. \A d \in Conns : pc[d] \in {"create", "join", "reconnect"} => todo'[d] = todo[d]
      BY <2>6, <2>7
    <3> QED
      BY <2>3, <2>5, <2>6, <2>7, <3>1, SamePeopleStep DEF HubInv, StateTypes
  <2>9. m \in Asked /\ m.type = "relay"
    <3>1. inbox[c] \in Seq(OkRequests) /\ inbox[c] # <<>> /\ Head(inbox[c]).type = "relay"
      BY <1>1, QueuesNow DEF Take
    <3> QED
      BY <2>1, <3>1, HeadTailProperties DEF OkRequests
  <2>10. out \in Message
    <3>1. m.to \in Nat /\ m.payload \in Payload
      BY <2>9 DEF Asked
    <3>2. id \in Nat
      BY <2>2 DEF HubInv, StateTypes, Token
    <3> QED
      BY <3>1, <3>2 DEF Message
  <2>11. Send(code, m.to, out) \in OkWrites(c)'
    <3>1. m.to \in Nat
      BY <2>9 DEF Asked
    <3>2. code \in Codes /\ session[code] \in Session
      BY <2>4 DEF HubInv, StateTypes
    <3>3. m.to < Len(session[code].party)
      BY <2>4, <3>1, <3>2, KeysAll DEF Parties
    <3>4. m.to < Len(session'[code].party)
      BY <2>4, <2>5, <3>3
    <3>5. Send(code, m.to, out) \in WriteOrder
      BY <2>10, <3>1, <3>2 DEF Send, WriteOrder
    <3>6. code = seat'[c].code /\ code \in Sessions'
      BY <2>2, <2>3, <2>4, <2>5 DEF SamePeople
    <3> QED
      BY <3>4, <3>5, <3>6 DEF Send, OkWrites
  <2>12. QueuesOk'
    <3> HIDE DEF out
    <3>1. \A d \in Conns : todo'[d] \in Seq(OkWrites(d)')
      <4> SUFFICES ASSUME NEW d \in Conns PROVE todo'[d] \in Seq(OkWrites(d)')
        OBVIOUS
      <4>1. CASE d = c
        <5>1. todo'[c] \in Seq(OkWrites(c)')
          BY <2>7, <2>11
        <5> QED
          BY <4>1, <5>1
      <4>2. CASE d # c
        BY <2>3, <2>7, <2>8, <4>2, QueuesStay
      <4> QED
        BY <4>1, <4>2
    <3> QED
      BY <1>1, <2>3, <2>8, <3>1, TakeInbox, QueuesStay DEF QueuesOk
  <2> QED
    BY <2>3, <2>5, <2>8, <2>12, SamePartiesStep, SameFlags
<1> QED
  BY <1>2, <1>3

-----------------------------------------------------------------------------
(* A party that changes its connection: it comes back, or is dropped. *)
Moved(code, i, d, on) ==
  /\ SamePeople
  /\ session'[code].party[i].conn = d /\ session'[code].party[i].connected = on
  /\ \A x \in Sessions : \A j \in 1 .. Len(session[x].party) :
       x # code \/ j # i => session'[x].party[j] = session[x].party[j]

LEMMA SetConnIs ==
  ASSUME NEW s \in Session, NEW id \in Nat, id < Len(s.party),
         NEW d \in Conns \cup {None}, NEW on \in BOOLEAN
  PROVE  LET t == SetConn(s, id, d, on) IN
         /\ t \in Session /\ t.size = s.size /\ t.ready = s.ready
         /\ Len(t.party) = Len(s.party)
         /\ t.party[id + 1] = [key |-> s.party[id + 1].key, conn |-> d, connected |-> on]
         /\ \A j \in 1 .. Len(s.party) : j # id + 1 => t.party[j] = s.party[j]
<1> DEFINE e == [key |-> s.party[id + 1].key, conn |-> d, connected |-> on]
           q == [s.party EXCEPT ![id + 1] = e]
<1>1. s.party \in Seq(Party) /\ id + 1 \in 1 .. Len(s.party)
  BY KeysAll DEF Session
<1>2. s.party[id + 1] \in Party
  BY <1>1, ElementOfSeq
<1>3. e \in Party
  BY <1>2 DEF Party
<1> HIDE DEF e
<1>4. /\ q \in Seq(Party) /\ Len(q) = Len(s.party)
      /\ \A j \in 1 .. Len(s.party) : q[j] = IF j = id + 1 THEN e ELSE s.party[j]
  BY <1>1, <1>3, ExceptSeq
<1>5. SetConn(s, id, d, on) = [s EXCEPT !.party = q]
  BY DEF SetConn, e
<1> HIDE DEF q
<1>6. q[id + 1] = e
  BY <1>1, <1>4
<1>7. LET t == [s EXCEPT !.party = q] IN
      t \in Session /\ t.size = s.size /\ t.ready = s.ready /\ t.party = q
  BY <1>4 DEF Session
<1> QED
  BY <1>4, <1>5, <1>6, <1>7 DEF e

LEMMA PartyMoved ==
  ASSUME HubInv, NEW code \in Sessions, NEW id \in Nat, id < Len(session[code].party),
         NEW d \in Conns \cup {None}, NEW on \in BOOLEAN,
         NEW t \in Session, t.party = SetConn(session[code], id, d, on).party,
         t.size = session[code].size, t.ready = session[code].ready,
         session' = [session EXCEPT ![code] = t]
  PROVE  Moved(code, id + 1, d, on)
<1>1. session \in [Sessions -> Session] /\ session[code] \in Session
  BY DEF HubInv, StateTypes
<1>2. /\ Len(t.party) = Len(session[code].party)
      /\ t.party[id + 1] =
           [key |-> session[code].party[id + 1].key, conn |-> d, connected |-> on]
      /\ \A j \in 1 .. Len(session[code].party) :
           j # id + 1 => t.party[j] = session[code].party[j]
  BY <1>1, SetConnIs
<1>3. /\ Sessions' = Sessions /\ session' \in [Sessions -> Session] /\ session'[code] = t
      /\ \A x \in Sessions : x # code => session'[x] = session[x]
  BY <1>1 DEF Sessions
<1>4. SamePeople
  BY <1>2, <1>3 DEF SamePeople
<1> QED
  BY <1>2, <1>3, <1>4 DEF Moved

LEMMA ReattachMoves ==
  ASSUME HubInv, NEW c \in Conns, Reattach(c)
  PROVE  Moved(seat[c].code, seat[c].id + 1, c, TRUE)
<1>1. PICK code, id : code = seat[c].code /\ id = seat[c].id
  OBVIOUS
<1>2. code \in Sessions /\ id \in Nat /\ id < Len(session[code].party)
  BY <1>1 DEF Reattach, HubInv, SeatsOk, StateTypes, Token
<1>3. session[code] \in Session
  BY <1>2 DEF HubInv, StateTypes
<1> DEFINE r == SetConn(session[code], id, c, TRUE)
           t == [r EXCEPT !.stale = FALSE]
<1>4. r \in Session /\ r.size = session[code].size /\ r.ready = session[code].ready
  <2> HIDE DEF t
  <2>1. c \in Conns \cup {None} /\ TRUE \in BOOLEAN
    OBVIOUS
  <2> QED
    BY ZenonT(40), <1>2, <1>3, <2>1, SetConnIs
<1> HIDE DEF r
<1>5. t \in Session /\ t.size = r.size /\ t.ready = r.ready /\ t.party = r.party
  BY <1>4 DEF Session
<1>6. session' = [session EXCEPT ![code] = t]
  BY <1>1 DEF Reattach, r
<1> HIDE DEF t
<1>7. Moved(code, id + 1, c, TRUE)
  BY <1>2, <1>4, <1>5, <1>6, PartyMoved DEF r
<1> QED
  BY <1>1, <1>7

LEMMA DisconnectMoves ==
  ASSUME HubInv, NEW c \in Conns, Disconnect(c), seat[c] # NoSeat
  PROVE  Moved(seat[c].code, seat[c].id + 1, None, FALSE)
<1>1. PICK code, id : code = seat[c].code /\ id = seat[c].id
  OBVIOUS
<1>2. code \in Sessions /\ id \in Nat /\ id < Len(session[code].party)
  BY <1>1 DEF Disconnect, Reading, HubInv, SeatsOk, StateTypes, Token
<1>3. session[code] \in Session
  BY <1>2 DEF HubInv, StateTypes
<1> DEFINE t == SetConn(session[code], id, None, FALSE)
<1>4. t \in Session /\ t.size = session[code].size /\ t.ready = session[code].ready
  <2>1. None \in Conns \cup {None} /\ FALSE \in BOOLEAN
    OBVIOUS
  <2> QED
    BY ZenonT(40), <1>2, <1>3, <2>1, SetConnIs
<1> HIDE DEF t
<1>5. session' = [session EXCEPT ![code] = t]
  BY <1>1 DEF Disconnect, t
<1>6. Moved(code, id + 1, None, FALSE)
  <2>1. None \in Conns \cup {None} /\ FALSE \in BOOLEAN
    OBVIOUS
  <2> QED
    BY <1>2, <1>4, <1>5, <2>1, PartyMoved DEF t
<1> QED
  BY <1>1, <1>6

LEMMA ReattachStep ==
  ASSUME HubInv, NEW c \in Conns, Reattach(c)
  PROVE  HubInv' /\ KeptBy(c)
<1>1. PICK code, id : code = seat[c].code /\ id = seat[c].id
  OBVIOUS
<1>2. /\ pc[c] = "reconnect" /\ pc' = [pc EXCEPT ![c] = "read"]
      /\ UNCHANGED <<link, inbox, wire, seat, listed>>
  BY DEF Reattach
<1> DEFINE back == [type |-> "reconnected", partyId |-> id]
           q == <<Send(code, id, back), Broadcast(code, back, id)>>
<1>3. todo' = [todo EXCEPT ![c] = q]
  BY <1>1 DEF Reattach
<1>4. /\ code \in Sessions /\ id \in Nat /\ id < Len(session[code].party)
      /\ link[c] \in {"open", "gone"} /\ seat[c] = Seat(code, id)
  BY <1>1, <1>2 DEF HubInv, SeatsOk, StateTypes, Token, Seat
<1>5. session[code] \in Session /\ id + 1 \in 1 .. Len(session[code].party)
  BY <1>4, KeysAll DEF HubInv, StateTypes
<1>6. Moved(code, id + 1, c, TRUE)
  BY <1>1, ReattachMoves
<1> HIDE DEF q
<1>7. /\ DOMAIN todo' = Conns /\ todo'[c] = q
      /\ \A d \in Conns : d # c => todo'[d] = todo[d] /\ pc'[d] = pc[d]
      /\ pc'[c] = "read"
  BY <1>2, <1>3 DEF HubInv, StateTypes
<1>8. StateTypes' /\ Keeps /\ SeatsOk' /\ Unentered' /\ Rooms'
  <2>1. pc' \in [Conns -> {"read", "create", "join", "reconnect", "leave"}]
    BY <1>2 DEF HubInv, StateTypes
  <2> QED
    BY <1>2, <1>6, <1>7, <2>1, SamePeopleStep DEF HubInv, StateTypes, Moved
<1>9. q \in Seq(OkWrites(c)')
  <2>1. back \in Message /\ back.type = "reconnected"
    BY <1>4 DEF Message
  <2> HIDE DEF back
  <2>2. Send(code, id, back) \in WriteOrder /\ Broadcast(code, back, id) \in WriteOrder
    BY <1>4, <2>1 DEF Send, Broadcast, WriteOrder, HubInv, StateTypes
  <2>3. /\ code = seat'[c].code /\ code \in Sessions'
        /\ id < Len(session'[code].party)
    BY <1>1, <1>2, <1>4, <1>6 DEF Moved, SamePeople
  <2>4. Send(code, id, back) \in OkWrites(c)' /\ Broadcast(code, back, id) \in OkWrites(c)'
    BY <2>1, <2>2, <2>3 DEF OkWrites, Send, Broadcast
  <2> QED
    BY <2>4 DEF q
<1>10. QueuesOk'
  <2>1. \A d \in Conns : todo'[d] \in Seq(OkWrites(d)')
    <3> SUFFICES ASSUME NEW d \in Conns PROVE todo'[d] \in Seq(OkWrites(d)')
      OBVIOUS
    <3>1. CASE d = c
      <4>1. todo'[c] \in Seq(OkWrites(c)')
        BY <1>7, <1>9
      <4> QED
        BY <3>1, <4>1
    <3>2. CASE d # c
      BY <1>2, <1>7, <1>8, <3>2, QueuesStay
    <3> QED
      BY <3>1, <3>2
  <2> QED
    BY <1>2, <1>8, <2>1, QueuesStay DEF QueuesOk
<1>11. Attached'
  <2> SUFFICES ASSUME NEW x \in Sessions, NEW i \in 1 .. Len(session[x].party),
                      session'[x].party[i].connected,
                      NEW d, d = session'[x].party[i].conn
               PROVE  /\ d \in Conns /\ seat[d] = Seat(x, i - 1)
                      /\ pc'[d] = "read" /\ link[d] \in {"open", "gone"}
    BY <1>2, <1>6 DEF Attached, Moved, SamePeople
  <2>1. CASE x = code /\ i = id + 1
    BY <1>4, <1>6, <1>7, <2>1 DEF Moved
  <2>2. CASE x # code \/ i # id + 1
    <3>1. session'[x].party[i] = session[x].party[i]
      BY <1>6, <2>2 DEF Moved
    <3>2. /\ d \in Conns /\ seat[d] = Seat(x, i - 1)
          /\ pc[d] = "read" /\ link[d] \in {"open", "gone"}
      BY <3>1, AttachedNow
    <3> QED
      BY <1>7, <3>2
  <2> QED
    BY <2>1, <2>2
<1>12. KeptBy(c)
  <2> SUFFICES ASSUME NEW d \in Conns, pc'[d] = "read", seat[d] # NoSeat
               PROVE  Flag(d)' \/ (pc[d] = "read" /\ ~Flag(d))
    BY <1>2 DEF KeptBy
  <2>1. CASE seat[d] = seat[c]
    BY <1>1, <1>2, <1>6, <2>1 DEF Moved, Flag
  <2>2. CASE seat[d] # seat[c]
    <3>1. pc[d] = "read"
      BY <1>7, <2>2
    <3>2. /\ seat[d].code \in Sessions /\ seat[d].id \in Nat
          /\ seat[d].id < Len(session[seat[d].code].party)
          /\ seat[d].code # code \/ seat[d].id # id
      BY <1>1, <2>2, <3>1, SeatParts DEF HubInv, SeatsOk, StateTypes
    <3>3. seat[d].id + 1 \in 1 .. Len(session[seat[d].code].party)
      BY <3>2, KeysAll DEF HubInv, StateTypes
    <3>4. session'[seat[d].code].party[seat[d].id + 1] = session[seat[d].code].party[seat[d].id + 1]
      <4>1. seat[d].code # code \/ seat[d].id + 1 # id + 1
        BY <1>4, <3>2
      <4> QED
        BY <1>6, <3>2, <3>3, <4>1 DEF Moved
    <3> QED
      BY <1>2, <3>1, <3>4 DEF Flag
  <2> QED
    BY <2>1, <2>2
<1> QED
  BY <1>8, <1>10, <1>11, <1>12 DEF HubInv

LEMMA DisconnectStep ==
  ASSUME HubInv, NEW c \in Conns, Disconnect(c)
  PROVE  HubInv' /\ KeptBy(c)
<1>1. /\ link[c] = "gone" /\ pc[c] = "read" /\ todo[c] = <<>>
      /\ pc' = [pc EXCEPT ![c] = "leave"]
      /\ UNCHANGED <<link, inbox, wire, seat, listed>>
  BY DEF Disconnect, Reading
<1>2. /\ pc' \in [Conns -> {"read", "create", "join", "reconnect", "leave"}]
      /\ pc'[c] = "leave" /\ \A d \in Conns : d # c => pc'[d] = pc[d]
  BY <1>1 DEF HubInv, StateTypes
<1>3. CASE seat[c] = NoSeat
  <2>1. session' = session /\ todo' = todo
    BY <1>3 DEF Disconnect
  <2>2. SamePeople
    BY <2>1 DEF SamePeople, Sessions, HubInv, StateTypes
  <2>3. StateTypes' /\ Keeps /\ SeatsOk' /\ Unentered' /\ Rooms'
    BY <1>1, <1>2, <2>1, <2>2, SamePeopleStep DEF HubInv, StateTypes
  <2>4. QueuesOk'
    BY <1>1, <2>1, <2>3, QueuesStay DEF QueuesOk
  <2>5. Attached'
    <3> SUFFICES ASSUME NEW x \in Sessions, NEW i \in 1 .. Len(session[x].party),
                        session[x].party[i].connected,
                        NEW d, d = session[x].party[i].conn
                 PROVE  /\ d \in Conns /\ seat[d] = Seat(x, i - 1)
                        /\ pc'[d] = "read" /\ link[d] \in {"open", "gone"}
      BY <1>1, <2>1 DEF Attached, Sessions
    <3>1. /\ d \in Conns /\ seat[d] = Seat(x, i - 1)
          /\ pc[d] = "read" /\ link[d] \in {"open", "gone"}
      BY AttachedNow
    <3>2. d # c
      BY <1>3, <3>1, NoneIsNoSession DEF HubInv, Seat
    <3> QED
      BY <1>2, <3>1, <3>2
  <2>6. KeptBy(c)
    <3>1. \A d \in Conns : pc'[d] = "read" => pc[d] = "read"
      BY <1>2
    <3> QED
      BY <1>1, <2>1, <3>1 DEF KeptBy, Flag
  <2> QED
    BY <2>3, <2>4, <2>5, <2>6 DEF HubInv
<1>4. CASE seat[c] # NoSeat
  <2>1. PICK code, id : code = seat[c].code /\ id = seat[c].id
    OBVIOUS
  <2> DEFINE left == [type |-> "left", partyId |-> id]
             q == <<Broadcast(code, left, id)>>
  <2>2. /\ session' = [session EXCEPT ![code] = SetConn(session[code], id, None, FALSE)]
        /\ todo' = [todo EXCEPT ![c] = q]
    BY <1>4, <2>1 DEF Disconnect
  <2>3. code \in Sessions /\ id \in Nat /\ id < Len(session[code].party) /\ seat[c] = Seat(code, id)
    BY <1>1, <1>4, <2>1 DEF HubInv, SeatsOk, StateTypes, Token, Seat
  <2>4. Moved(code, id + 1, None, FALSE)
    BY <1>4, <2>1, DisconnectMoves
  <2> HIDE DEF q
  <2>5. /\ DOMAIN todo' = Conns /\ todo'[c] = q
        /\ \A d \in Conns : d # c => todo'[d] = todo[d]
    BY <2>2 DEF HubInv, StateTypes
  <2>6. StateTypes' /\ Keeps /\ SeatsOk' /\ Unentered' /\ Rooms'
    BY <1>1, <1>2, <2>4, <2>5, SamePeopleStep DEF HubInv, StateTypes, Moved
  <2>7. q \in Seq(OkWrites(c)')
    <3>1. left \in Message /\ left.type = "left"
      BY <2>3 DEF Message
    <3> HIDE DEF left
    <3>2. Broadcast(code, left, id) \in WriteOrder
      BY <2>3, <3>1 DEF Broadcast, WriteOrder, HubInv, StateTypes
    <3>3. code = seat'[c].code /\ code \in Sessions'
      BY <1>1, <2>1, <2>3, <2>4 DEF Moved, SamePeople
    <3>4. Broadcast(code, left, id) \in OkWrites(c)'
      BY <3>1, <3>2, <3>3 DEF OkWrites, Broadcast
    <3> QED
      BY <3>4 DEF q
  <2>8. QueuesOk'
    <3>1. \A d \in Conns : todo'[d] \in Seq(OkWrites(d)')
      <4> SUFFICES ASSUME NEW d \in Conns PROVE todo'[d] \in Seq(OkWrites(d)')
        OBVIOUS
      <4>1. CASE d = c
        <5>1. todo'[c] \in Seq(OkWrites(c)')
          BY <2>5, <2>7
        <5> QED
          BY <4>1, <5>1
      <4>2. CASE d # c
        BY <1>1, <2>5, <2>6, <4>2, QueuesStay
      <4> QED
        BY <4>1, <4>2
    <3> QED
      BY <1>1, <2>6, <3>1, QueuesStay DEF QueuesOk
  <2>9. Attached'
    <3> SUFFICES ASSUME NEW x \in Sessions, NEW i \in 1 .. Len(session[x].party),
                        session'[x].party[i].connected,
                        NEW d, d = session'[x].party[i].conn
                 PROVE  /\ d \in Conns /\ seat[d] = Seat(x, i - 1)
                        /\ pc'[d] = "read" /\ link[d] \in {"open", "gone"}
      BY <1>1, <2>4 DEF Attached, Moved, SamePeople
    <3>1. x # code \/ i # id + 1
      BY <2>4 DEF Moved
    <3>2. session'[x].party[i] = session[x].party[i]
      BY <2>4, <3>1 DEF Moved
    <3>3. /\ d \in Conns /\ seat[d] = Seat(x, i - 1)
          /\ pc[d] = "read" /\ link[d] \in {"open", "gone"}
      BY <3>2, AttachedNow
    <3>4. d # c
      BY <2>3, <3>1, <3>3 DEF Seat
    <3> QED
      BY <1>2, <3>3, <3>4
  <2>10. KeptBy(c)
    <3> SUFFICES ASSUME NEW d \in Conns, pc'[d] = "read", seat[d] # NoSeat
                 PROVE  \/ Flag(d)'
                        \/ /\ pc[d] = "read"
                           /\ ~Flag(d) \/ (d \in Twins(c) /\ Leaves(c))
      BY <1>1 DEF KeptBy
    <3>1. d # c /\ pc[d] = "read"
      BY <1>2
    <3>2. CASE seat[d] = seat[c]
      BY <1>1, <1>2, <1>4, <3>1, <3>2 DEF Twins, Leaves
    <3>3. CASE seat[d] # seat[c]
      <4>1. /\ seat[d].code \in Sessions /\ seat[d].id \in Nat
            /\ seat[d].id < Len(session[seat[d].code].party)
            /\ seat[d].code # code \/ seat[d].id # id
        BY <2>1, <3>1, <3>3, SeatParts DEF HubInv, SeatsOk, StateTypes
      <4>2. seat[d].id + 1 \in 1 .. Len(session[seat[d].code].party)
        BY <4>1, KeysAll DEF HubInv, StateTypes
      <4>3. seat[d].code # code \/ seat[d].id + 1 # id + 1
        BY <2>3, <4>1
      <4>4. session'[seat[d].code].party[seat[d].id + 1] =
              session[seat[d].code].party[seat[d].id + 1]
        BY <2>4, <4>1, <4>2, <4>3 DEF Moved
      <4> QED
        BY <1>1, <3>1, <4>4 DEF Flag
    <3> QED
      BY <3>2, <3>3
  <2> QED
    BY <2>6, <2>8, <2>9, <2>10 DEF HubInv
<1> QED
  BY <1>3, <1>4

-----------------------------------------------------------------------------
(* A party is added at the end of the list. *)
LEMMA AddPartyIs ==
  ASSUME NEW s \in Session, NEW c \in Conns
  PROVE  LET t == AddParty(s, c) IN
         /\ t \in Session /\ t.size = s.size /\ t.ready = (s.ready \/ NowFull(s))
         /\ Len(t.party) = Len(s.party) + 1
         /\ t.party[Len(s.party) + 1] = NewParty(c)
         /\ \A i \in 1 .. Len(s.party) : t.party[i] = s.party[i]
<1> DEFINE q == Append(s.party, NewParty(c))
           r == s.ready \/ NowFull(s)
<1>1. s.party \in Seq(Party) /\ NewParty(c) \in Party
  BY DEF Session, Party, NewParty
<1>2. /\ q \in Seq(Party) /\ Len(q) = Len(s.party) + 1
      /\ \A i \in 1 .. Len(s.party) : q[i] = s.party[i]
      /\ q[Len(s.party) + 1] = NewParty(c)
  BY <1>1, AppendProperties
<1>3. r \in BOOLEAN
  BY DEF Session, NowFull
<1>4. AddParty(s, c) = [s EXCEPT !.party = q, !.ready = r, !.stale = FALSE]
  BY DEF AddParty
<1> HIDE DEF q, r
<1>5. LET t == [s EXCEPT !.party = q, !.ready = r, !.stale = FALSE] IN
      t \in Session /\ t.size = s.size /\ t.ready = r /\ t.party = q
  BY <1>2, <1>3 DEF Session
<1> QED
  BY <1>2, <1>4, <1>5 DEF r

LEMMA NextIsMore ==
  ASSUME NEW n \in Nat
  PROVE  n < n + 1
  OBVIOUS

LEMMA LessThrough ==
  ASSUME NEW i \in Nat, NEW l \in Nat, NEW k \in Nat, i < l, l <= k
  PROVE  i < k
  OBVIOUS

\* What the addition of a party says of the state it reaches, t the new record
\* of the session and n the party's number.
PartyAdded(c, code, n, t) ==
  /\ code \in Sessions /\ session[code] \in Session /\ n \in Nat
  /\ n = Len(session[code].party) /\ n < session[code].size
  /\ pc[c] \in {"create", "join"} /\ seat[c].code = code /\ link[c] \in {"open", "gone"}
  /\ t \in Session /\ t.size = session[code].size
  /\ t.ready = (session[code].ready \/ NowFull(session[code]))
  /\ Len(t.party) = n + 1 /\ t.party[n + 1] = NewParty(c)
  /\ \A i \in 1 .. n : t.party[i] = session[code].party[i]
  /\ Sessions' = Sessions /\ session' \in [Sessions -> Session] /\ session'[code] = t
  /\ \A x \in Sessions : x # code => session'[x] = session[x]
  /\ Seat(code, n) \in Token /\ Seat(code, n).code = code /\ Seat(code, n).id = n
  /\ seat' \in [Conns -> Token] /\ seat'[c] = Seat(code, n)
  /\ pc' \in [Conns -> {"read", "create", "join", "reconnect", "leave"}] /\ pc'[c] = "read"
  /\ DOMAIN todo' = Conns /\ todo'[c] \in Seq(OkWrites(c)')
  /\ \A d \in Conns : d # c => seat'[d] = seat[d] /\ pc'[d] = pc[d] /\ todo'[d] = todo[d]
  /\ \A d \in Conns : seat'[d].code = seat[d].code
  /\ UNCHANGED <<link, inbox, wire, listed>>

LEMMA PartyAddedHolds ==
  ASSUME HubInv, NEW c \in Conns, NEW code, NEW n, NEW t, PartyAdded(c, code, n, t)
  PROVE  HubInv' /\ KeptBy(c)
<1>1. /\ code \in Sessions /\ session[code] \in Session /\ n \in Nat
      /\ n = Len(session[code].party) /\ n < session[code].size
  BY DEF PartyAdded
<1>2. pc[c] \in {"create", "join"} /\ seat[c].code = code /\ link[c] \in {"open", "gone"}
  BY DEF PartyAdded
<1>3. /\ t.size = session[code].size
      /\ t.ready = (session[code].ready \/ NowFull(session[code]))
      /\ Len(t.party) = n + 1 /\ t.party[n + 1] = NewParty(c)
      /\ \A i \in 1 .. n : t.party[i] = session[code].party[i]
  BY DEF PartyAdded
<1>4. /\ Sessions' = Sessions /\ session'[code] = t
      /\ \A x \in Sessions : x # code => session'[x] = session[x]
  BY DEF PartyAdded
<1>5. Seat(code, n) \in Token /\ Seat(code, n).code = code /\ Seat(code, n).id = n
  BY DEF PartyAdded
<1>6. /\ seat'[c] = Seat(code, n) /\ pc'[c] = "read"
      /\ \A d \in Conns : d # c => seat'[d] = seat[d] /\ pc'[d] = pc[d] /\ todo'[d] = todo[d]
      /\ \A d \in Conns : seat'[d].code = seat[d].code
  BY DEF PartyAdded
<1>7. link' = link /\ inbox' = inbox /\ wire' = wire /\ listed' = listed
  BY DEF PartyAdded
<1>8. StateTypes'
  BY DEF PartyAdded, HubInv, StateTypes
<1>9. \A x \in Sessions : Len(session[x].party) \in Nat /\ session[x].size \in Nat
  BY KeysAll DEF HubInv, StateTypes, Session
<1>10. \A x \in Sessions : /\ session'[x].size = session[x].size
                            /\ Len(session'[x].party) \in Nat
                            /\ Len(session[x].party) <= Len(session'[x].party)
  <2> SUFFICES ASSUME NEW x \in Sessions
               PROVE  /\ session'[x].size = session[x].size
                      /\ Len(session'[x].party) \in Nat
                      /\ Len(session[x].party) <= Len(session'[x].party)
    OBVIOUS
  <2>1. CASE x = code
    BY <1>1, <1>3, <1>4, <2>1
  <2>2. CASE x # code
    <3>1. session'[x] = session[x]
      BY <1>4, <2>2
    <3> QED
      BY <1>9, <3>1
  <2> QED
    BY <2>1, <2>2
<1>11. Keeps
  <2>1. ASSUME NEW x \in Sessions
        PROVE  /\ x \in Sessions'
               /\ session'[x].size = session[x].size
               /\ Len(session[x].party) <= Len(session'[x].party)
               /\ Len(session[x].party) = session[x].size
                    => Keys(session'[x]) = Keys(session[x])
    <3>1. Len(session[x].party) = session[x].size => session'[x] = session[x]
      <4>1. n # session[code].size
        BY <1>1, <1>9
      <4> QED
        BY <1>1, <1>4, <4>1
    <3> QED
      BY <1>4, <1>10, <3>1
  <2>2. ASSUME NEW d \in Conns
        PROVE  /\ seat[d] # NoSeat /\ pc[d] \in {"read", "leave"}
                    => seat'[d] = seat[d] /\ pc'[d] \in {"read", "leave"}
               /\ pc'[d] = "create" =>
                    \/ seat'[d].code \notin Sessions
                    \/ pc[d] = "create" /\ seat'[d].code = seat[d].code
    BY <1>2, <1>6
  <2> QED
    BY <2>1, <2>2 DEF Keeps
<1>12. QueuesOk'
  <2>1. \A d \in Conns : todo'[d] \in Seq(OkWrites(d)')
    <3> SUFFICES ASSUME NEW d \in Conns PROVE todo'[d] \in Seq(OkWrites(d)')
      OBVIOUS
    <3>1. CASE d = c
      <4>1. todo'[c] \in Seq(OkWrites(c)')
        BY DEF PartyAdded
      <4> QED
        BY <3>1, <4>1
    <3>2. CASE d # c
      BY <1>6, <1>8, <1>11, <3>2, QueuesStay
    <3> QED
      BY <3>1, <3>2
  <2> QED
    BY <1>7, <1>8, <1>11, <2>1, QueuesStay DEF QueuesOk
<1>13. SeatsOk'
  <2> SUFFICES ASSUME NEW d \in Conns
               PROVE  /\ pc'[d] \in {"create", "join", "reconnect"} =>
                            seat'[d] # NoSeat /\ todo'[d] = <<>> /\ link[d] \in {"open", "gone"}
                      /\ pc'[d] = "leave" => link[d] \in {"gone", "closed"}
                      /\ seat'[d] # NoSeat => seat'[d].code \in Sessions
                      /\ seat'[d] # NoSeat /\ pc'[d] \in {"read", "leave", "reconnect"} =>
                            seat'[d].id < Len(session'[seat'[d].code].party)
    BY <1>4, <1>7 DEF SeatsOk
  <2>1. CASE d = c
    <3>1. pc'[d] = "read" /\ seat'[d].code = code /\ seat'[d].id = n
      BY <1>5, <1>6, <2>1
    <3>2. n < Len(session'[code].party)
      BY <1>1, <1>3, <1>4
    <3> QED
      BY <1>1, <3>1, <3>2
  <2>2. CASE d # c
    <3>1. /\ pc[d] \in {"create", "join", "reconnect"} =>
                seat[d] # NoSeat /\ todo[d] = <<>> /\ link[d] \in {"open", "gone"}
          /\ pc[d] = "leave" => link[d] \in {"gone", "closed"}
          /\ seat[d] # NoSeat => seat[d].code \in Sessions
          /\ seat[d] # NoSeat /\ pc[d] \in {"read", "leave", "reconnect"} =>
                seat[d].id < Len(session[seat[d].code].party)
      BY DEF HubInv, SeatsOk
    <3>2. seat[d].id \in Nat
      BY SeatParts DEF HubInv
    <3>3. ASSUME seat[d].code \in Sessions, seat[d].id < Len(session[seat[d].code].party)
          PROVE  seat[d].id < Len(session'[seat[d].code].party)
      <4>1. PICK i \in Nat : i = seat[d].id
        BY <3>2
      <4>2. PICK l \in Nat, k \in Nat :
              l = Len(session[seat[d].code].party) /\ k = Len(session'[seat[d].code].party)
        BY <1>9, <1>10, <3>3
      <4>3. i < l /\ l <= k
        BY <1>10, <3>3, <4>1, <4>2
      <4> QED
        BY Zenon, <4>1, <4>2, <4>3, LessThrough
    <3>4. seat'[d] = seat[d] /\ pc'[d] = pc[d] /\ todo'[d] = todo[d]
      BY <1>6, <2>2
    <3> QED
      BY <3>1, <3>3, <3>4
  <2> QED
    BY <2>1, <2>2
<1>14. Unentered'
  <2> SUFFICES ASSUME NEW d \in Conns, pc'[d] = "create"
               PROVE  /\ session'[seat'[d].code].party = <<>>
                      /\ \A e \in Conns \ {d} : seat'[e].code # seat'[d].code
    BY DEF Unentered
  <2>1. d # c /\ pc[d] = "create" /\ seat'[d] = seat[d]
    BY <1>6
  <2>2. /\ session[seat[d].code].party = <<>> /\ seat[d].code \in Sessions
        /\ \A e \in Conns \ {d} : seat[e].code # seat[d].code
    BY <2>1 DEF HubInv, Unentered, SeatsOk
  <2>3. seat[d].code # code
    BY <1>2, <2>1, <2>2
  <2> QED
    BY <1>4, <1>6, <2>1, <2>2, <2>3
<1>15. Rooms'
  <2> SUFFICES ASSUME NEW x \in Sessions
               PROVE  /\ 2 <= session'[x].size /\ Len(session'[x].party) <= session'[x].size
                      /\ session'[x].ready <=> Len(session'[x].party) = session'[x].size
    BY <1>4 DEF Rooms
  <2>1. /\ 2 <= session[x].size /\ Len(session[x].party) <= session[x].size
        /\ session[x].ready <=> Len(session[x].party) = session[x].size
    BY DEF HubInv, Rooms
  <2>2. CASE x = code
    <3>1. n # session[code].size /\ (n + 1 >= session[code].size <=> n + 1 = session[code].size)
          /\ n + 1 <= session[code].size
      BY <1>1, <1>9
    <3>2. ~session[code].ready
      BY <1>1, <2>1, <2>2, <3>1
    <3>3. t.ready <=> n + 1 >= session[code].size
      BY <1>1, <1>3, <3>2 DEF NowFull
    <3> QED
      BY <1>3, <1>4, <2>1, <2>2, <3>1, <3>3
  <2>3. CASE x # code
    BY <1>4, <2>1, <2>3
  <2> QED
    BY <2>2, <2>3
<1>16. Attached'
  <2> SUFFICES ASSUME NEW x \in Sessions, NEW i \in 1 .. Len(session'[x].party),
                      session'[x].party[i].connected,
                      NEW d, d = session'[x].party[i].conn
               PROVE  /\ d \in Conns /\ seat'[d] = Seat(x, i - 1)
                      /\ pc'[d] = "read" /\ link[d] \in {"open", "gone"}
    BY <1>4, <1>7 DEF Attached
  <2>1. CASE x = code /\ i = n + 1
    <3>1. session'[x].party[i] = NewParty(c)
      BY <1>3, <1>4, <2>1
    <3>2. d = c
      BY <3>1 DEF NewParty
    <3>3. i - 1 = n
      BY <1>1, <2>1
    <3> QED
      BY <1>2, <1>6, <2>1, <3>2, <3>3
  <2>2. CASE ~(x = code /\ i = n + 1)
    <3>1. i \in 1 .. Len(session[x].party) /\ session'[x].party[i] = session[x].party[i]
      <4>1. CASE x = code
        <5>1. i \in 1 .. n + 1 /\ i # n + 1
          BY <1>3, <1>4, <2>2, <4>1
        <5>2. i \in 1 .. n
          BY <1>1, <5>1
        <5> QED
          BY <1>1, <1>3, <1>4, <4>1, <5>2
      <4>2. CASE x # code
        <5>1. session'[x] = session[x]
          BY <1>4, <4>2
        <5> QED
          BY <5>1
      <4> QED
        BY <4>1, <4>2
    <3>2. d = session[x].party[i].conn /\ session[x].party[i].connected
      BY <3>1
    <3>3. /\ d \in Conns /\ seat[d] = Seat(x, i - 1)
          /\ pc[d] = "read" /\ link[d] \in {"open", "gone"}
      BY <3>1, <3>2, AttachedNow
    <3>4. d # c
      BY <1>2, <3>3
    <3> QED
      BY <1>6, <3>3, <3>4
  <2> QED
    BY <2>1, <2>2
<1>17. KeptBy(c)
  <2> SUFFICES ASSUME NEW d \in Conns, pc'[d] = "read", seat'[d] # NoSeat
               PROVE  Flag(d)' \/ (pc[d] = "read" /\ seat'[d] = seat[d] /\ ~Flag(d))
    BY DEF KeptBy
  <2>1. CASE d = c
    <3>1. seat'[d].code = code /\ seat'[d].id = n
      BY <1>5, <1>6, <2>1
    <3>2. session'[code].party[n + 1].connected
      BY <1>3, <1>4 DEF NewParty
    <3> QED
      BY <3>1, <3>2 DEF Flag
  <2>2. CASE d # c
    <3>1. seat'[d] = seat[d] /\ pc[d] = "read"
      BY <1>6, <2>2
    <3>3. /\ seat[d].code \in Sessions /\ seat[d].id \in Nat
          /\ seat[d].id < Len(session[seat[d].code].party)
      BY <3>1, SeatParts DEF HubInv, SeatsOk
    <3>4. session'[seat[d].code].party[seat[d].id + 1] =
            session[seat[d].code].party[seat[d].id + 1]
      <4>1. CASE seat[d].code = code
        <5>1. seat[d].id + 1 \in 1 .. n
          BY <1>1, <3>3, <4>1
        <5> QED
          BY <1>3, <1>4, <4>1, <5>1
      <4>2. CASE seat[d].code # code
        BY <1>4, <3>3, <4>2
      <4> QED
        BY <4>1, <4>2
    <3> QED
      BY Zenon, <3>1, <3>4 DEF Flag
  <2> QED
    BY <2>1, <2>2
<1> QED
  BY <1>8, <1>12, <1>13, <1>14, <1>15, <1>16, <1>17 DEF HubInv

LEMMA PartyAddedStep ==
  ASSUME HubInv, NEW c \in Conns, pc[c] \in {"create", "join"},
         NEW code, code = seat[c].code, NEW n, n = Len(session[code].party),
         n < session[code].size,
         session' = [session EXCEPT ![code] = AddParty(session[code], c)],
         seat' = [seat EXCEPT ![c] = Seat(code, n)],
         pc' = [pc EXCEPT ![c] = "read"],
         NEW q, todo' = [todo EXCEPT ![c] = q], q \in Seq(OkWrites(c)'),
         UNCHANGED <<link, inbox, wire, listed>>
  PROVE  HubInv' /\ KeptBy(c)
<1>1. /\ code \in Sessions /\ session[code] \in Session
      /\ link[c] \in {"open", "gone"}
  BY DEF HubInv, SeatsOk, StateTypes
<1>2. n \in Nat
  BY <1>1, KeysAll
<1>3. PICK t : t = AddParty(session[code], c)
  OBVIOUS
<1>4. /\ t \in Session /\ t.size = session[code].size
      /\ t.ready = (session[code].ready \/ NowFull(session[code]))
      /\ Len(t.party) = n + 1 /\ t.party[n + 1] = NewParty(c)
      /\ \A i \in 1 .. n : t.party[i] = session[code].party[i]
  BY <1>1, <1>3, AddPartyIs
<1>5. /\ Sessions' = Sessions /\ session' \in [Sessions -> Session] /\ session'[code] = t
      /\ \A x \in Sessions : x # code => session'[x] = session[x]
  <2>1. session \in [Sessions -> Session] /\ session' = [session EXCEPT ![code] = t]
    BY <1>3 DEF HubInv, StateTypes
  <2> QED
    BY <1>1, <1>4, <2>1 DEF Sessions
<1>6. /\ Seat(code, n) \in Token /\ Seat(code, n).code = code /\ Seat(code, n).id = n
  BY <1>1, <1>2 DEF Seat, Token, HubInv, StateTypes
<1>7. /\ seat' \in [Conns -> Token] /\ seat'[c] = Seat(code, n)
      /\ \A d \in Conns : d # c => seat'[d] = seat[d]
      /\ \A d \in Conns : seat'[d].code = seat[d].code
  BY <1>6 DEF HubInv, StateTypes
<1>8. /\ pc' \in [Conns -> {"read", "create", "join", "reconnect", "leave"}] /\ pc'[c] = "read"
      /\ \A d \in Conns : d # c => pc'[d] = pc[d]
  BY DEF HubInv, StateTypes
<1>9. /\ DOMAIN todo' = Conns /\ todo'[c] = q /\ \A d \in Conns : d # c => todo'[d] = todo[d]
  BY DEF HubInv, StateTypes
<1>10. todo'[c] \in Seq(OkWrites(c)')
  BY <1>9
<1>11. PartyAdded(c, code, n, t)
  BY Zenon, <1>1, <1>2, <1>4, <1>5, <1>6, <1>7, <1>8, <1>9, <1>10 DEF PartyAdded
<1> QED
  BY <1>11, PartyAddedHolds

LEMMA AddCreatorStep ==
  ASSUME HubInv, NEW c \in Conns, AddCreator(c)
  PROVE  HubInv' /\ KeptBy(c)
<1>1. PICK code : code = seat[c].code
  OBVIOUS
<1>2. /\ pc[c] = "create" /\ code \in Sessions /\ session[code].party = <<>>
      /\ session[code] \in Session
  BY <1>1 DEF AddCreator, HubInv, SeatsOk, Unentered, StateTypes
<1>3. Len(session[code].party) = 0 /\ 0 < session[code].size
  BY <1>2 DEF HubInv, Rooms, Session
<1> DEFINE created == [type |-> "created", session |-> code, partyId |-> 0]
           q == <<Send(code, 0, created)>>
<1>4. /\ session' = [session EXCEPT ![code] = AddParty(session[code], c)]
      /\ seat' = [seat EXCEPT ![c] = Seat(code, 0)]
      /\ todo' = [todo EXCEPT ![c] = q]
      /\ pc' = [pc EXCEPT ![c] = "read"]
      /\ UNCHANGED <<link, inbox, wire, listed>>
  BY <1>1, <1>3 DEF AddCreator
<1>5. q \in Seq(OkWrites(c)')
  <2>1. created \in Message /\ created.type = "created"
    BY <1>2 DEF Message, HubInv, StateTypes
  <2>2. Send(code, 0, created) \in WriteOrder
    BY <1>2, <2>1 DEF Send, WriteOrder, HubInv, StateTypes
  <2>3. code = seat'[c].code
    BY <1>4 DEF Seat, HubInv, StateTypes
  <2>4. code \in Sessions' /\ 0 < Len(session'[code].party)
    <3>1. PICK t : t = AddParty(session[code], c)
      OBVIOUS
    <3>2. Len(t.party) = 0 + 1
      BY <1>2, <1>3, <3>1, AddPartyIs
    <3>3. Sessions' = Sessions /\ session'[code] = t
      BY <1>2, <1>4, <3>1 DEF Sessions
    <3>4. code \in Sessions'
      BY <1>2, <3>3
    <3>5. Len(session'[code].party) = 1
      BY <3>2, <3>3
    <3> QED
      BY <3>4, <3>5
  <2>5. Send(code, 0, created) \in OkWrites(c)'
    BY <2>2, <2>3, <2>4 DEF OkWrites, Send
  <2> QED
    BY <2>5
<1> HIDE DEF q
<1> QED
  BY <1>1, <1>2, <1>3, <1>4, <1>5, PartyAddedStep

\* A joiner that came too late loses the seat it was given.
LEMMA FullStep ==
  ASSUME HubInv, NEW c \in Conns, pc[c] = "join",
         seat' = [seat EXCEPT ![c] = NoSeat], pc' = [pc EXCEPT ![c] = "read"],
         wire' = [wire EXCEPT ![c] = Append(@, [type |-> "error"])],
         UNCHANGED <<link, inbox, session, todo, listed>>
  PROVE  HubInv' /\ KeptBy(c)
<1>1. todo[c] = <<>> /\ NoSeat \in Token
  BY DEF HubInv, SeatsOk, NoSeat, Seat, Token
<1>2. /\ seat'[c] = NoSeat /\ pc'[c] = "read"
      /\ \A d \in Conns : d # c => seat'[d] = seat[d] /\ pc'[d] = pc[d] /\ wire'[d] = wire[d]
      /\ DOMAIN wire' = Conns /\ wire'[c] = Append(wire[c], [type |-> "error"])
  BY DEF HubInv, StateTypes
<1>3. StateTypes' /\ Sessions' = Sessions
  BY <1>1, <1>2 DEF HubInv, StateTypes, Sessions
<1>4. Keeps
  <2>1. \A x \in Sessions : Len(session[x].party) \in Nat
    BY KeysAll DEF HubInv, StateTypes
  <2> QED
    BY <1>2, <1>3, <2>1 DEF Keeps
<1>5. QueuesOk'
  <2>1. wire'[c] \in Seq(OkMessages(c)')
    <3>1. [type |-> "error"] \in OkMessages(c)'
      BY DEF OkMessages, Message
    <3>2. wire[c] \in Seq(OkMessages(c)')
      BY <1>3, <1>4, QueuesStay
    <3> QED
      BY <1>2, <3>1, <3>2, AppendProperties
  <2>2. \A d \in Conns : wire'[d] \in Seq(OkMessages(d)') /\ todo'[d] \in Seq(OkWrites(d)')
    <3> SUFFICES ASSUME NEW d \in Conns
                 PROVE  wire'[d] \in Seq(OkMessages(d)') /\ todo'[d] \in Seq(OkWrites(d)')
      OBVIOUS
    <3>1. CASE d = c
      <4>1. todo'[d] = <<>>
        BY <1>1, <3>1
      <4> QED
        BY <2>1, <3>1, <4>1
    <3>2. CASE d # c
      BY <1>2, <1>3, <1>4, <3>2, QueuesStay
    <3> QED
      BY <3>1, <3>2
  <2> QED
    BY <1>3, <1>4, <2>2, QueuesStay DEF QueuesOk
<1>6. SeatsOk'
  BY <1>2, <1>3 DEF HubInv, SeatsOk
<1>7. Unentered'
  <2> SUFFICES ASSUME NEW d \in Conns, pc'[d] = "create"
               PROVE  /\ session[seat'[d].code].party = <<>>
                      /\ \A e \in Conns \ {d} : seat'[e].code # seat'[d].code
    BY DEF Unentered
  <2>1. d # c /\ pc[d] = "create" /\ seat'[d] = seat[d]
    BY <1>2
  <2>2. /\ session[seat[d].code].party = <<>> /\ seat[d].code \in Codes
        /\ \A e \in Conns \ {d} : seat[e].code # seat[d].code
    BY <2>1 DEF HubInv, Unentered, SeatsOk, StateTypes
  <2>3. NoSeat.code # seat[d].code
    BY <2>2, RelayAssumption DEF NoSeat, Seat
  <2> QED
    BY <1>2, <2>1, <2>2, <2>3
<1>8. Rooms'
  BY <1>3 DEF HubInv, Rooms
<1>9. Attached'
  <2> SUFFICES ASSUME NEW x \in Sessions, NEW i \in 1 .. Len(session[x].party),
                      session[x].party[i].connected,
                      NEW d, d = session[x].party[i].conn
               PROVE  /\ d \in Conns /\ seat'[d] = Seat(x, i - 1)
                      /\ pc'[d] = "read" /\ link[d] \in {"open", "gone"}
    BY <1>3 DEF Attached
  <2>1. /\ d \in Conns /\ seat[d] = Seat(x, i - 1)
        /\ pc[d] = "read" /\ link[d] \in {"open", "gone"}
    BY AttachedNow
  <2> QED
    BY <1>2, <2>1
<1>10. KeptBy(c)
  BY <1>2 DEF KeptBy, Flag
<1> QED
  BY <1>3, <1>5, <1>6, <1>7, <1>8, <1>9, <1>10 DEF HubInv

LEMMA AddJoinerStep ==
  ASSUME HubInv, NEW c \in Conns, AddJoiner(c)
  PROVE  HubInv' /\ KeptBy(c)
<1>1. PICK code : code = seat[c].code
  OBVIOUS
<1>2. PICK n : n = Len(session[code].party)
  OBVIOUS
<1>3. /\ pc[c] = "join" /\ code \in Sessions /\ session[code] \in Session
      /\ todo[c] = <<>> /\ seat[c] # NoSeat /\ link[c] \in {"open", "gone"}
  BY <1>1 DEF AddJoiner, HubInv, SeatsOk, StateTypes
<1>4. n \in Nat /\ session[code].size \in Nat
  BY <1>2, <1>3, KeysAll DEF Session
<1>5. CASE ~Full(session[code])
  <2>0. PICK k : k = Keys(AddParty(session[code], c))
    OBVIOUS
  <2> DEFINE mine == [type |-> "joined", partyId |-> n, token |-> Seat(code, n)]
             theirs == [type |-> "joined", partyId |-> n, token |-> NoSeat]
             t == AddParty(session[code], c)
             all == [type |-> "ready", keys |-> k]
             told == <<Send(code, n, mine), Broadcast(code, theirs, n)>>
             ready == <<Broadcast(code, all, Nobody)>>
             q == told \o (IF NowFull(session[code]) THEN ready ELSE <<>>)
  <2>1. /\ session' = [session EXCEPT ![code] = t]
        /\ seat' = [seat EXCEPT ![c] = Seat(code, n)]
        /\ todo' = [todo EXCEPT ![c] = q]
        /\ pc' = [pc EXCEPT ![c] = "read"]
        /\ UNCHANGED <<link, inbox, wire, listed>>
    BY <1>1, <1>2, <1>5, <2>0 DEF AddJoiner
  <2>2. n < session[code].size
    BY <1>2, <1>4, <1>5 DEF Full
  <2>3. t \in Session /\ t.size = session[code].size /\ Len(t.party) = n + 1
    BY <1>2, <1>3, AddPartyIs
  <2> HIDE DEF t
  <2>4. code \in Sessions' /\ session'[code] = t /\ code = seat'[c].code /\ code \in Codes
    BY <1>3, <2>1 DEF Sessions, HubInv, StateTypes, Seat
  <2>5. mine \in Message /\ theirs \in Message /\ all \in Message
    <3>1. Seat(code, n) \in Token /\ NoSeat \in Token
      BY <1>4, <2>4 DEF Seat, NoSeat, Token
    <3>2. k \in Seq(Conns)
      BY <2>0, <2>3, KeysAll DEF t
    <3> QED
      BY <1>4, <3>1, <3>2 DEF Message
  <2>6. /\ mine.type = "joined" /\ theirs.type = "joined"
        /\ all.type = "ready" /\ all.keys = k
    OBVIOUS
  <2> HIDE DEF mine, theirs, all
  <2>7. Nobody \in Nat
    BY RelayAssumption DEF Nobody
  <2>8. Send(code, n, mine) \in OkWrites(c)'
    <3>1. Send(code, n, mine) \in WriteOrder
      BY <1>4, <2>4, <2>5 DEF Send, WriteOrder
    <3>2. n < Len(session'[code].party)
      BY <1>4, <2>3, <2>4
    <3> QED
      BY <2>4, <2>6, <3>1, <3>2 DEF Send, OkWrites
  <2>9. Broadcast(code, theirs, n) \in OkWrites(c)'
    <3>1. Broadcast(code, theirs, n) \in WriteOrder
      BY <1>4, <2>4, <2>5 DEF Broadcast, WriteOrder
    <3> QED
      BY <2>4, <2>6, <3>1 DEF Broadcast, OkWrites
  <2>10. ASSUME NowFull(session[code]) PROVE Broadcast(code, all, Nobody) \in OkWrites(c)'
    <3>1. Broadcast(code, all, Nobody) \in WriteOrder
      BY <2>4, <2>5, <2>7 DEF Broadcast, WriteOrder
    <3>2. n + 1 = session[code].size
      BY <1>2, <1>4, <2>2, <2>10 DEF NowFull
    <3>3. k = Keys(t) /\ Len(k) = t.size
      BY <2>0, <2>3, <3>2, KeysAll DEF t
    <3>4. Everybody(k, code)'
      BY <2>4, <3>3 DEF Everybody
    <3> QED
      BY <2>4, <2>6, <3>1, <3>4 DEF Broadcast, OkWrites
  <2>11. told \in Seq(OkWrites(c)')
    BY <2>8, <2>9
  <2>12. q \in Seq(OkWrites(c)')
    <3>1. CASE NowFull(session[code])
      <4>1. ready \in Seq(OkWrites(c)')
        BY <2>10, <3>1
      <4> HIDE DEF told, ready
      <4>2. told \o ready \in Seq(OkWrites(c)')
        BY <2>11, <4>1, ConcatProperties
      <4> QED
        BY <3>1, <4>2
    <3>2. CASE ~NowFull(session[code])
      <4> HIDE DEF told, ready
      <4>1. told \o <<>> = told
        BY <2>11, ConcatEmptySeq
      <4> QED
        BY <2>11, <3>2, <4>1
    <3> QED
      BY <3>1, <3>2
  <2> HIDE DEF q
  <2> QED
    BY <1>1, <1>2, <1>3, <2>1, <2>2, <2>12, PartyAddedStep DEF t
<1>6. CASE Full(session[code])
  <2>1. /\ seat' = [seat EXCEPT ![c] = NoSeat] /\ pc' = [pc EXCEPT ![c] = "read"]
        /\ wire' = [wire EXCEPT ![c] = Append(@, [type |-> "error"])]
        /\ UNCHANGED <<link, inbox, session, todo, listed>>
    BY <1>1, <1>6 DEF AddJoiner
  <2> QED
    BY <1>3, <2>1, FullStep
<1> QED
  BY <1>5, <1>6

-----------------------------------------------------------------------------
(* The whole specification. *)
LEMMA WrittenIs ==
  ASSUME HubInv, NEW type, NEW m \in Written(type)
  PROVE  m.type = type /\ \E c \in Conns : m \in OkMessages(c)
<1>1. PICK c \in Conns : m \in ToSet(wire[c]) /\ m.type = type
  BY DEF Written
<1>2. wire[c] \in Seq(OkMessages(c))
  BY QueuesNow
<1>3. PICK i \in DOMAIN wire[c] : m = wire[c][i]
  BY <1>1 DEF ToSet
<1>4. i \in 1 .. Len(wire[c])
  BY <1>2, <1>3, LenProperties
<1>5. m \in OkMessages(c)
  BY <1>2, <1>3, <1>4, ElementOfSeq
<1> QED
  BY <1>1, <1>5

LEMMA RequestStep ==
  ASSUME HubInv, NEW c \in Conns, NEW m \in OkRequests,
         inbox' = [inbox EXCEPT ![c] = Append(@, m)],
         UNCHANGED <<link, wire, pc, todo, seat, session, listed>>
  PROVE  HubInv'
<1>1. Append(inbox[c], m) \in Seq(OkRequests)
  BY QueuesNow, AppendProperties
<1>2. DOMAIN inbox' = Conns /\ \A d \in Conns : inbox'[d] \in Seq(OkRequests)
  BY <1>1, QueuesNow DEF HubInv, StateTypes
<1> QED
  BY <1>2, QueuesNow, QuietStep DEF HubInv, StateTypes

LEMMA AskStep ==
  ASSUME HubInv, NEW c \in Conns, Ask(c)
  PROVE  HubInv'
<1>1. PICK m \in Requests \cup {[type |-> "relay", to |-> i, payload |-> c] : i \in 0 .. 1} :
        /\ inbox' = [inbox EXCEPT ![c] = Append(@, m)]
        /\ UNCHANGED <<link, wire, pc, todo, seat, session, listed>>
  BY DEF Ask, Request
<1>2. m \in OkRequests
  <2>1. CASE m \in [type : {"create"}, parties : Sizes]
    BY <2>1, SizesAssumption DEF OkRequests, Asked
  <2>2. CASE m \in [type : {"join"}, session : KnownCodes]
    <3>1. PICK x \in Written("created") : m.session = x.session
      BY <2>2 DEF KnownCodes
    <3>2. Announced(m.session)
      BY <3>1, WrittenIs DEF OkMessages
    <3>3. m.session \in Codes
      BY <3>2 DEF Announced, HubInv, StateTypes
    <3> QED
      BY <2>2, <3>2, <3>3 DEF OkRequests, Asked
  <2>3. CASE m \in [type : {"reconnect"}, token : KnownTokens]
    <3>1. m.token \in KnownTokens /\ m.type = "reconnect"
      BY <2>3
    <3>2. CASE \E x \in Written("created") : m.token = Seat(x.session, 0)
      <4>1. PICK x \in Written("created") : m.token = Seat(x.session, 0)
        BY <3>2
      <4>2. x.session \in Codes
        <5>1. x.type = "created" /\ x \in Message
          BY <4>1, WrittenIs DEF OkMessages
        <5> QED
          BY <5>1 DEF Message
      <4>3. m.token \in Token
        BY <4>1, <4>2 DEF Seat, Token
      <4> QED
        BY <2>3, <4>3 DEF OkRequests, Asked
    <3>3. CASE \E x \in Written("joined") : m.token = x.token
      <4>1. PICK x \in Written("joined") : m.token = x.token
        BY <3>3
      <4>2. x.type = "joined" /\ x \in Message
        BY <4>1, WrittenIs DEF OkMessages
      <4>3. m.token \in Token
        BY <4>1, <4>2 DEF Message
      <4> QED
        BY <2>3, <4>3 DEF OkRequests, Asked
    <3> QED
      BY <3>1, <3>2, <3>3 DEF KnownTokens
  <2>4. CASE m \in {[type |-> "relay", to |-> i, payload |-> c] : i \in 0 .. 1}
    <3>1. PICK i \in 0 .. 1 : m = [type |-> "relay", to |-> i, payload |-> c]
      BY <2>4
    <3>2. i \in Nat /\ c \in Payload
      BY DEF Payload
    <3>3. m \in Asked
      BY <3>1, <3>2 DEF Asked
    <3> QED
      BY <3>1, <3>3 DEF OkRequests
  <2> QED
    BY <1>1, <2>1, <2>2, <2>3, <2>4 DEF Requests
<1> QED
  BY <1>1, <1>2, RequestStep

\* What the server does of its own.
LEMMA ServerStep ==
  ASSUME HubInv, NEW c \in Conns, Goroutine(c) \/ Network(c)
  PROVE  HubInv'
  BY HandleCreateStep, AddCreatorStep, HandleJoinStep, AddJoinerStep,
     HandleReconnectStep, ReattachStep, HandleRelayStep, WriteStep, DisconnectStep, NetworkStep
     DEF Goroutine

LEMMA AgingStep ==
  ASSUME HubInv, Cleanup \/ AbandonTimeout
  PROVE  HubInv'
<1>1. CASE Cleanup
  <2>1. /\ listed' \subseteq listed
        /\ UNCHANGED <<link, inbox, wire, pc, todo, seat, session>>
    BY <1>1 DEF Cleanup, SweepStart, SweepLook, SweepFlag, SweepDelete, hubVars
  <2> QED
    BY <2>1, QueuesNow, QuietStep DEF HubInv, StateTypes
<1> QED
  BY <1>1, TimeoutStep

LEMMA HubStutter ==
  ASSUME HubInv, UNCHANGED hubVars
  PROVE  HubInv'
  BY QueuesNow, QuietStep DEF hubVars, HubInv, StateTypes

LEMMA HubInvStep == HubInv /\ [MCNext]_mcVars => HubInv'
  BY ServerStep, AskStep, AgingStep, HubStutter DEF MCNext, Sweeping, mcVars

LEMMA HubInvInit == HubInit => HubInv
<1> SUFFICES ASSUME HubInit PROVE HubInv
  OBVIOUS
<1>1. Sessions = {} /\ NoSeat \in Token
  BY DEF HubInit, Sessions, NoSeat, Seat, Token
<1>2. StateTypes
  BY <1>1 DEF HubInit, StateTypes
<1>3. QueuesOk
  BY DEF HubInit, QueuesOk
<1>4. SeatsOk /\ Unentered
  BY DEF HubInit, SeatsOk, Unentered
<1>5. Rooms /\ Attached
  BY <1>1 DEF Rooms, Attached
<1> QED
  BY <1>2, <1>3, <1>4, <1>5 DEF HubInv

\* The invariant, for every behaviour of the hub.
THEOREM HubInvariant == MCSpec => []HubInv
  BY HubInvInit, HubInvStep, PTL DEF MCSpec, MCInit

\* However joins overlap, no session seats more parties than were asked
\* for, and it is ready exactly when it is full (Session.AddParty).
THEOREM NeverMoreThanAsked == MCSpec => []NeverOverfull
<1>1. HubInv => NeverOverfull
  BY DEF HubInv, Rooms, NeverOverfull, Sessions
<1> QED
  BY <1>1, HubInvariant, PTL

\* Whoever is told that it created a session is party 0 of it, although
\* the session is in the hub's map before its creator is (handleCreate).
THEOREM CreatorsAreZero == MCSpec => []CreatorIsPartyZero
<1>1. HubInv => CreatorIsPartyZero
  BY WrittenIs DEF CreatorIsPartyZero, OkMessages
<1> QED
  BY <1>1, HubInvariant, PTL

\* Everybody that is told "ready" is told the keys of all parties of its
\* session, whatever reconnections happen while they are written.
THEOREM ReadyIsAgreed == MCSpec => []ReadyAgreed
<1>1. HubInv => ReadyAgreed
  <2> SUFFICES ASSUME HubInv, NEW c \in Conns, NEW m \in ToSet(wire[c]), m.type = "ready"
               PROVE  /\ m.keys = Keys(session[seat[c].code])
                      /\ Len(m.keys) = session[seat[c].code].size
    BY DEF ReadyAgreed
  <2>1. wire[c] \in Seq(OkMessages(c))
    BY QueuesNow
  <2>2. PICK i \in DOMAIN wire[c] : m = wire[c][i]
    BY DEF ToSet
  <2>3. i \in 1 .. Len(wire[c])
    BY <2>1, <2>2, LenProperties
  <2>4. m \in OkMessages(c)
    BY <2>1, <2>2, <2>3, ElementOfSeq
  <2> QED
    BY <2>4 DEF OkMessages, Everybody
<1> QED
  BY <1>1, HubInvariant, PTL

\* What the hub writes for a party goes to a connection that took this
\* party's seat itself and is not known to be closed (Hub.sendTo).
THEOREM WritesToItsOwn == MCSpec => []ConnectedIsOwn
<1>1. HubInv => ConnectedIsOwn
  <2> SUFFICES ASSUME HubInv, NEW code \in Sessions, NEW i \in Parties(session[code]),
                      session[code].party[i + 1].connected,
                      NEW d, d = session[code].party[i + 1].conn
               PROVE  seat[d] = Seat(code, i) /\ link[d] \in {"open", "gone"}
    BY DEF ConnectedIsOwn, Sessions
  <2>1. Len(session[code].party) \in Nat
    BY KeysAll DEF HubInv, StateTypes
  <2>2. i + 1 \in 1 .. Len(session[code].party) /\ i \in Nat
    BY <2>1 DEF Parties
  <2>3. /\ d \in Conns /\ seat[d] = Seat(code, i + 1 - 1)
        /\ link[d] \in {"open", "gone"}
    BY <2>2, AttachedNow
  <2>4. i + 1 - 1 = i
    BY <2>2
  <2> QED
    BY <2>3, <2>4
<1> QED
  BY <1>1, HubInvariant, PTL

-----------------------------------------------------------------------------
(* A pass of cleanup. *)
SweepInv ==
  /\ SweepTypeOK
  /\ \A c \in Conns : pc[c] = "read" /\ seat[c] # NoSeat =>
       /\ Flag(c) \/ c \in cut
       /\ Overlooked(seat[c]) => c \in late \cup cut

LEMMA GoroutineKeeps ==
  ASSUME HubInv, NEW c \in Conns, Goroutine(c)
  PROVE  KeptBy(c)
<1>1. CASE Release(c)
  BY <1>1, SameFlags DEF Release
<1> QED
  BY <1>1, HandleCreateStep, AddCreatorStep, HandleJoinStep, AddJoinerStep, HandleReconnectStep,
     ReattachStep, HandleRelayStep, WriteStep, DisconnectStep DEF Goroutine

\* Only the goroutine of a connection seats it.
LEMMA SeatedByItself ==
  ASSUME HubInv, NEW c \in Conns, Goroutine(c), NEW d \in Conns,
         pc'[d] = "read", seat'[d] # NoSeat, ~(pc[d] = "read" /\ seat'[d] = seat[d])
  PROVE  d = c /\ TakesSeat(c)
<1>1. DOMAIN pc = Conns /\ DOMAIN seat = Conns
  BY DEF HubInv, StateTypes
<1>2. CASE AddCreator(c) \/ AddJoiner(c) \/ Reattach(c)
  <2>1. pc[c] \in {"create", "join", "reconnect"} /\ (d # c => pc'[d] = pc[d] /\ seat'[d] = seat[d])
    BY <1>1, <1>2 DEF AddCreator, AddJoiner, Reattach
  <2> QED
    BY <2>1 DEF TakesSeat
<1>3. CASE HandleCreate(c) \/ HandleJoin(c) \/ HandleReconnect(c)
  BY <1>1, <1>3 DEF HandleCreate, HandleJoin, HandleReconnect, SendError
<1>4. CASE HandleRelay(c) \/ Write(c) \/ Release(c)
  <2>1. UNCHANGED <<pc, seat>>
    BY Zenon, <1>4 DEF HandleRelay, Write, Release, SendError
  <2> QED
    BY <2>1
<1>5. CASE Disconnect(c)
  BY <1>1, <1>5 DEF Disconnect
<1> QED
  BY <1>2, <1>3, <1>4, <1>5 DEF Goroutine

\* A seat is a party's of an existing session.
LEMMA SeatInRoom ==
  ASSUME HubInv, NEW c \in Conns, pc[c] = "read", seat[c] # NoSeat
  PROVE  /\ seat[c].code \in Sessions /\ seat[c].code # None /\ seat[c].id \in Nat
         /\ Len(session[seat[c].code].party) \in Nat
         /\ seat[c].id < Len(session[seat[c].code].party)
  BY SeatParts, KeysAll, RelayAssumption DEF HubInv, SeatsOk, StateTypes

LEMMA SweepTypes ==
  ASSUME HubInv, SweepTypeOK, Cleanup
  PROVE  SweepTypeOK'
<1> USE DEF SweepTypeOK
<1>1. ASSUME NEW code, Pass(code) PROVE SweepTypeOK'
  BY <1>1 DEF Pass, Resting
<1>2. CASE SweepStart
  BY <1>2 DEF SweepStart, Resting, HubInv, StateTypes
<1>3. CASE SweepLook
  <2>1. PICK code \in sweep.left :
          sweep' = [sweep EXCEPT !.at = code, !.next = 1] \/ Pass(code)
    BY <1>3 DEF SweepLook
  <2>2. CASE sweep' = [sweep EXCEPT !.at = code, !.next = 1]
    BY <2>2
  <2> QED
    BY <1>1, <2>1, <2>2
<1>4. CASE SweepFlag
  BY <1>1, <1>4 DEF SweepFlag
<1>5. CASE SweepDelete
  BY <1>1, <1>5 DEF SweepDelete
<1> QED
  BY <1>2, <1>3, <1>4, <1>5 DEF Cleanup

\* One step of the pass reads at most one flag more.
LEMMA SweepReads ==
  ASSUME HubInv, SweepInv, Cleanup, NEW c \in Conns, pc[c] = "read", seat[c] # NoSeat,
         sweep'.at = seat[c].code, sweep'.next = 0 \/ seat[c].id + 1 < sweep'.next
  PROVE  sweep'.at = sweep.at /\ (Overlooked(seat[c]) \/ ~Flag(c))
<1>1. /\ seat[c].code # None /\ seat[c].id \in Nat
      /\ Len(session[seat[c].code].party) \in Nat
      /\ seat[c].id < Len(session[seat[c].code].party)
  BY SeatInRoom
<1>2. ASSUME NEW code, Pass(code) PROVE FALSE
  BY <1>1, <1>2 DEF Pass, Resting
<1>3. CASE SweepStart
  BY <1>1, <1>3 DEF SweepStart, Resting
<1>4. CASE SweepLook
  <2>1. PICK code \in sweep.left : sweep' = [sweep EXCEPT !.at = code, !.next = 1]
    BY <1>2, <1>4 DEF SweepLook
  <2>2. sweep'.next = 1
    BY <2>1 DEF SweepInv, SweepTypeOK
  <2> QED
    BY <1>1, <2>2
<1>5. CASE SweepFlag
  <2>1. PICK n : n = sweep.next
    OBVIOUS
  <2>2. PICK l : l = Len(session[sweep.at].party)
    OBVIOUS
  <2>3. /\ n \in Nat /\ n > 0
        /\ ~(n <= l /\ session[sweep.at].party[n].connected)
        /\ sweep' = [sweep EXCEPT !.next = IF n < l THEN n + 1 ELSE 0]
    BY <1>2, <1>5, <2>1, <2>2 DEF SweepFlag, SweepInv, SweepTypeOK
  <2>4. /\ sweep'.at = sweep.at /\ sweep'.next = IF n < l THEN n + 1 ELSE 0
        /\ seat[c].code = sweep.at /\ l \in Nat /\ seat[c].id < l
    BY <1>1, <2>2, <2>3 DEF SweepInv, SweepTypeOK
  <2>5. seat[c].id + 1 < n \/ (seat[c].id + 1 = n /\ n <= l)
    BY <1>1, <2>3, <2>4
  <2> QED
    BY <2>1, <2>3, <2>4, <2>5 DEF Overlooked, Flag
<1>6. CASE SweepDelete
  BY <1>2, <1>6 DEF SweepDelete
<1> QED
  BY <1>3, <1>4, <1>5, <1>6 DEF Cleanup

LEMMA SweepInvStep == HubInv /\ SweepInv /\ [MCNext]_mcVars => SweepInv'
<1> SUFFICES ASSUME HubInv, SweepInv, [MCNext]_mcVars PROVE SweepInv'
  OBVIOUS
<1>1. ASSUME NEW c \in Conns, Goroutine(c), Note(c), UNCHANGED sweep PROVE SweepInv'
  <2> SUFFICES ASSUME NEW d \in Conns, pc'[d] = "read", seat'[d] # NoSeat
               PROVE  /\ Flag(d)' \/ d \in cut'
                      /\ Overlooked(seat'[d]) => d \in late' \cup cut'
    BY <1>1 DEF SweepInv, SweepTypeOK, Overlooked
  <2>1. cut \subseteq cut' /\ late \subseteq late'
    BY <1>1 DEF Note
  <2>2. CASE pc[d] = "read" /\ seat'[d] = seat[d]
    <3>1. Flag(d)' \/ ~Flag(d) \/ d \in cut'
      BY <1>1, GoroutineKeeps DEF KeptBy, Note
    <3> QED
      BY <2>1, <2>2, <3>1 DEF SweepInv
  <2>3. CASE ~(pc[d] = "read" /\ seat'[d] = seat[d])
    <3>1. Flag(d)'
      BY <1>1, <2>3, GoroutineKeeps DEF KeptBy
    <3>2. d = c /\ TakesSeat(c)
      BY <1>1, <2>3, SeatedByItself
    <3> QED
      BY <1>1, <3>1, <3>2 DEF Note
  <2> QED
    BY <2>2, <2>3
<1>2. CASE UNCHANGED <<pc, seat, session, sweep, history>>
  BY <1>2 DEF SweepInv, SweepTypeOK, Overlooked, Flag, history
<1>3. CASE AbandonTimeout /\ UNCHANGED history
  <2>1. PICK code \in listed : session' = [session EXCEPT ![code].stale = TRUE]
    BY <1>3 DEF AbandonTimeout
  <2>2. \A x \in Sessions : session'[x].party = session[x].party
    BY <2>1, StaleOnly DEF HubInv, StateTypes
  <2>3. UNCHANGED <<pc, seat, sweep, history>>
    BY <1>3 DEF AbandonTimeout
  <2>4. ASSUME NEW c \in Conns, pc[c] = "read", seat[c] # NoSeat
        PROVE  Flag(c)' <=> Flag(c)
    BY <2>2, <2>3, <2>4, SeatInRoom DEF Flag
  <2> QED
    BY <2>3, <2>4 DEF SweepInv, SweepTypeOK, Overlooked, history
<1>4. CASE Sweeping
  <2>1. UNCHANGED <<pc, seat, session, cut>> /\ Cleanup
    BY <1>4 DEF Sweeping, Cleanup, SweepStart, SweepLook, SweepFlag, SweepDelete, hubVars
  <2>2. SweepTypeOK'
    BY <2>1, SweepTypes DEF SweepInv
  <2>3. ASSUME NEW c \in Conns, pc[c] = "read", seat[c] # NoSeat, Overlooked(seat[c])'
        PROVE  c \in late' \cup cut'
    <3>1. sweep'.at = sweep.at /\ (Overlooked(seat[c]) \/ ~Flag(c))
      BY <2>1, <2>3, SweepReads DEF Overlooked
    <3>2. late' = late
      BY <1>4, <3>1 DEF Sweeping
    <3> QED
      BY <2>1, <2>3, <3>1, <3>2 DEF SweepInv
  <2> QED
    BY <2>1, <2>2, <2>3 DEF SweepInv, Flag
<1> QED
  BY <1>1, <1>2, <1>3, <1>4 DEF MCNext, Ask, Network, AddIP, Accept, AcceptFails, Hangup,
     mcVars, hubVars, history

LEMMA SweepInvInit == MCInit => SweepInv
  BY DEF MCInit, HubInit, SweepInv, SweepTypeOK, Resting, NoSeat, Seat

\* cleanup deletes no session in which an open connection sits, unless that
\* connection took its seat when the pass had already read the seat's flag
\* (HasConnected, hub.go:333), or another connection of the seat, found dead
\* after it came, cleared the flag (the deferred function, hub.go:409).
THEOREM AbandonedOnly == MCSpec => OnlyAbandonedDeleted
<1> DEFINE Left == \A code \in listed \ listed' : \A c \in Conns :
                     (link[c] = "open" /\ pc[c] = "read" /\ seat[c].code = code)
                       => c \in late \cup cut
<1>1. MCSpec => [](HubInv /\ SweepInv)
  BY HubInvInit, HubInvStep, SweepInvInit, SweepInvStep, PTL DEF MCSpec, MCInit
<1>2. HubInv /\ SweepInv /\ [MCNext]_mcVars => [Left]_mcVars
  <2> SUFFICES ASSUME HubInv, SweepInv, [MCNext]_mcVars,
                      NEW code \in listed \ listed', NEW c \in Conns,
                      pc[c] = "read", seat[c].code = code
               PROVE  c \in late \cup cut
    OBVIOUS
  <2>1. code = sweep.at /\ sweep.next = 0
    BY ZenonT(40) DEF MCNext, Goroutine, HandleCreate, AddCreator, HandleJoin, AddJoiner, HandleReconnect,
       Reattach, HandleRelay, Write, Disconnect, Release, SendError, Network, AddIP, Accept,
       AcceptFails, Hangup, Ask, Sweeping, Cleanup, SweepStart, SweepLook, SweepFlag, SweepDelete,
       AbandonTimeout, mcVars, hubVars
  <2>2. seat[c] # NoSeat
    BY NoneIsNoSession DEF HubInv, StateTypes
  <2> QED
    BY <2>1, <2>2 DEF SweepInv, Overlooked
<1> QED
  BY <1>1, <1>2, PTL DEF MCSpec, OnlyAbandonedDeleted
=============================================================================
