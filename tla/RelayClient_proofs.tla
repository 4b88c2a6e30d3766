-------------------------- MODULE RelayClient_proofs --------------------------
(***************************************************************************)
(* Theorems about the pages' relay clients together with the relay server, *)
(* for any number of pages, connections and sessions, with whatever joins, *)
(* failures and reconnections.                                             *)
(*                                                                         *)
(* A seat is a page's if the key that the server keeps for the party is    *)
(* the page's own (Claim); the keys of a session are never replaced, so a  *)
(* claim stays good.  The invariant says that every seat a goroutine sits  *)
(* in, every token on its way and every token a page holds is a claim of   *)
(* the page that opened the connection, and that the key of a party is the *)
(* connection which took that seat first (Homes): a page has one seat.     *)
(***************************************************************************)
EXTENDS RelayHub_proofs

(* What a page consists of. *)
KeyRings == UNION {[D -> SUBSET Conns] : D \in SUBSET Nat}

Client ==
  [state : {"idle", "creating", "joining", "up", "failed", "closed"},
   partyId : Nat \cup {None}, sessionCode : Codes \cup {None}, token : Token \cup {None},
   key : Conns \cup {None}, ws : Conns \cup {None}, greeted : BOOLEAN,
   retry : {"no", "waiting", "dialing", "gaveUp"}, attempts : 0 .. MaxAttempts,
   gate : Seq(Conns), isReady : BOOLEAN, peerKeys : KeyRings]

PageTypes ==
  /\ owner \in [Conns -> Pages \cup {None}]
  /\ page \in [Pages -> Client]

\* The server keeps the page's key for this seat.
Claim(p, t) ==
  /\ p \in Pages /\ t.code \in Sessions /\ t.id < Len(session[t.code].party)
  /\ session[t.code].party[t.id + 1].key = page[p].key

\* The first keys of a session, in the order of the parties.
Heard(keys, code) ==
  /\ code \in Sessions
  /\ \A i \in 1 .. Len(keys) :
       i <= Len(session[code].party) /\ keys[i] = session[code].party[i].key

\* A party's key is the connection that took the seat first.
Homes ==
  \A code \in Sessions : \A i \in 1 .. Len(session[code].party) :
    LET k == session[code].party[i].key IN
    k \in Conns /\ seat[k] = Seat(code, i - 1) /\ pc[k] \in {"read", "leave"}

\* Whose connection this is, and that it is the one that brought the key.
OwnKey(c) == owner[c] \in Pages /\ page[owner[c]].key = c

OwnRequests(c) ==
  {m \in Asked :
     /\ m.type \in {"create", "join"} => OwnKey(c)
     /\ m.type = "reconnect" => Claim(owner[c], m.token)}

OwnMessages(c) ==
  {m \in Message :
     /\ m.type = "created" => Claim(owner[c], Seat(m.session, 0))
     /\ m.type = "joined" /\ m.token # NoSeat => Claim(owner[c], m.token)}

\* Codes and tokens go to the party they name, and to nobody else.
TrueWrite(w) ==
  /\ w.msg.type = "created" => ~w.all /\ w.party = 0
  /\ w.msg.type = "joined" /\ w.msg.token # NoSeat =>
       ~w.all /\ w.msg.token = Seat(w.code, w.party)

TrueWrites == {w \in WriteOrder : TrueWrite(w)}

OwnQueues ==
  \A c \in Conns :
    /\ inbox[c] \in Seq(OwnRequests(c))
    /\ wire[c] \in Seq(OwnMessages(c))
    /\ todo[c] \in Seq(TrueWrites)

\* A goroutine takes a new seat for the key of its page, and sits in a
\* seat of its page.
OwnSeat(c) ==
  /\ pc[c] \in {"create", "join"} => OwnKey(c)
  /\ Settled(c) => Claim(owner[c], seat[c])

OwnSeats == \A c \in Conns : OwnSeat(c)

\* Nothing has happened on a connection before its page's first request.
Blank(c) ==
  inbox[c] = <<>> /\ wire[c] = <<>> /\ seat[c] = NoSeat /\ pc[c] \in {"read", "leave"}

Silent(c) ==
  \/ owner[c] = None
  \/ \E p \in Pages : page[p].ws = c /\ ~page[p].greeted

Blanks == \A c \in Conns : Silent(c) => Blank(c)

(* What a page believes. *)
ConnOk(p) ==
  LET me == page[p] IN
  /\ me.key # None => owner[me.key] = p
  /\ me.ws # None => owner[me.ws] = p
  /\ me.state = "idle" => me.key = None /\ ~me.greeted
  /\ me.state = "joining" => me.sessionCode # None
  /\ me.ws # None /\ ~me.greeted /\ me.retry # "dialing" =>
       me.ws = me.key /\ me.state \in {"creating", "joining"}

TokenOk(p) ==
  LET me == page[p] IN
  /\ me.state \in {"idle", "creating", "joining", "failed"} => me.token = None
  /\ me.retry \in {"waiting", "dialing"} => me.token # None
  /\ me.token # None => Claim(p, me.token)
  /\ me.sessionCode # None => Announced(me.sessionCode)

KeysOk(p) ==
  LET me == page[p]
      code == seat[me.key].code IN
  /\ me.gate # <<>> => me.key # None /\ Settled(me.key) /\ Heard(me.gate, code)
  /\ \A i \in DOMAIN me.peerKeys :
       /\ me.key # None /\ Settled(me.key) /\ code \in Sessions
       /\ i \in Nat /\ i < Len(session[code].party)
       /\ me.peerKeys[i] = {me.key, session[code].party[i + 1].key}

PagesOk == \A p \in Pages : ConnOk(p) /\ TokenOk(p) /\ KeysOk(p)

ClientInv == PageTypes /\ Homes /\ OwnQueues /\ OwnSeats /\ Blanks /\ PagesOk

-----------------------------------------------------------------------------
(* What no step takes back: people stay in their seats, with their keys. *)
PeopleStay ==
  \A code \in Sessions :
    /\ code \in Sessions' /\ Len(session[code].party) <= Len(session'[code].party)
    /\ \A i \in 1 .. Len(session[code].party) :
         session'[code].party[i].key = session[code].party[i].key

SeatsStay ==
  /\ \A c \in Conns : Settled(c) => Settled(c)' /\ seat'[c] = seat[c]
  /\ \A c \in Conns : pc'[c] = "create" =>
       \/ pc[c] = "create" /\ seat'[c].code = seat[c].code
       \/ seat'[c].code \notin Sessions

NamesStay ==
  /\ \A c \in Conns : owner[c] # None => owner'[c] = owner[c]
  /\ \A p \in Pages : page[p].key # None => page'[p].key = page[p].key

LEMMA PartyIndex ==
  ASSUME StateTypes, NEW code \in Sessions, NEW id \in Nat, id < Len(session[code].party)
  PROVE  /\ id + 1 \in 1 .. Len(session[code].party)
         /\ session[code].party[id + 1].key \in Conns
<1>1. session[code] \in Session
  BY DEF StateTypes
<1>2. /\ session[code].party \in Seq(Party) /\ Len(session[code].party) \in Nat
  BY <1>1, KeysAll DEF Session
<1>3. id + 1 \in 1 .. Len(session[code].party)
  BY <1>2
<1>4. session[code].party[id + 1] \in Party
  BY <1>2, <1>3, ElementOfSeq
<1> QED
  BY <1>3, <1>4 DEF Party

LEMMA ClaimStays ==
  ASSUME StateTypes, StateTypes', PeopleStay, NamesStay,
         NEW p, NEW t \in Token, Claim(p, t)
  PROVE  Claim(p, t)'
<1>1. /\ t.id \in Nat /\ t.code \in Sessions /\ t.id < Len(session[t.code].party) /\ p \in Pages
      /\ session[t.code].party[t.id + 1].key = page[p].key
  BY DEF Token, Claim
<1>2. /\ t.id + 1 \in 1 .. Len(session[t.code].party)
      /\ session[t.code].party[t.id + 1].key \in Conns
  BY <1>1, PartyIndex
<1>3. /\ t.code \in Sessions' /\ Len(session[t.code].party) <= Len(session'[t.code].party)
      /\ session'[t.code].party[t.id + 1].key = session[t.code].party[t.id + 1].key
  BY <1>1, <1>2 DEF PeopleStay
<1>4. page'[p].key = page[p].key
  BY <1>1, <1>2, RelayAssumption DEF NamesStay
<1>5. Len(session[t.code].party) \in Nat /\ Len(session'[t.code].party) \in Nat
  <2>1. session[t.code] \in Session /\ session'[t.code] \in Session'
    BY <1>1, <1>3 DEF StateTypes
  <2>2. Session' = Session
    BY DEF Session
  <2> QED
    BY <2>1, <2>2, KeysAll
<1>6. t.id < Len(session'[t.code].party)
  BY <1>1, <1>3, <1>5
<1> QED
  BY <1>1, <1>3, <1>4, <1>6 DEF Claim

LEMMA HeardStays ==
  ASSUME StateTypes, StateTypes', PeopleStay, NEW keys, NEW code, Heard(keys, code),
         Len(keys) \in Nat
  PROVE  Heard(keys, code)'
<1>1. code \in Sessions /\ code \in Sessions'
  BY DEF Heard, PeopleStay
<1>2. /\ session[code] \in Session /\ session'[code] \in Session
  BY <1>1 DEF StateTypes, Session
<1>3. Len(session[code].party) \in Nat /\ Len(session'[code].party) \in Nat
  BY <1>2, KeysAll
<1>4. ASSUME NEW i \in 1 .. Len(keys)
      PROVE  i <= Len(session'[code].party) /\ keys[i] = session'[code].party[i].key
  <2>1. i <= Len(session[code].party) /\ keys[i] = session[code].party[i].key
    BY DEF Heard
  <2>2. i \in 1 .. Len(session[code].party)
    BY <1>3, <2>1
  <2>3. /\ Len(session[code].party) <= Len(session'[code].party)
        /\ session'[code].party[i].key = session[code].party[i].key
    BY <1>1, <2>2 DEF PeopleStay
  <2> QED
    BY <1>3, <2>1, <2>3
<1> QED
  BY <1>1, <1>4 DEF Heard

LEMMA OwnStays ==
  ASSUME StateTypes, StateTypes', PageTypes, PeopleStay, NamesStay, NEW c \in Conns
  PROVE  /\ OwnKey(c) => OwnKey(c)'
         /\ OwnRequests(c) \subseteq OwnRequests(c)'
         /\ OwnMessages(c) \subseteq OwnMessages(c)'
<1>1. \A t \in Token : Claim(owner[c], t) => Claim(owner[c], t)' /\ owner'[c] = owner[c]
  <2> SUFFICES ASSUME NEW t \in Token, Claim(owner[c], t)
               PROVE  Claim(owner[c], t)' /\ owner'[c] = owner[c]
    OBVIOUS
  <2>1. owner[c] \in Pages
    BY DEF Claim
  <2>2. owner'[c] = owner[c]
    BY <2>1, ClientAssumption DEF NamesStay
  <2>3. PICK p : p = owner[c]
    OBVIOUS
  <2>4. Claim(p, t)'
    BY <2>3, ClaimStays
  <2> QED
    BY <2>2, <2>3, <2>4
<1>2. OwnKey(c) => OwnKey(c)'
  <2> SUFFICES ASSUME OwnKey(c) PROVE OwnKey(c)'
    OBVIOUS
  <2>1. owner[c] \in Pages /\ page[owner[c]].key = c
    BY DEF OwnKey
  <2>2. owner'[c] = owner[c] /\ page'[owner[c]].key = page[owner[c]].key
    BY <2>1, ClientAssumption, RelayAssumption DEF NamesStay
  <2> QED
    BY <2>1, <2>2 DEF OwnKey
<1>3. ASSUME NEW m \in OwnRequests(c) PROVE m \in OwnRequests(c)'
  <2>1. m \in Asked /\ (m.type \in {"create", "join"} => OwnKey(c))
    BY DEF OwnRequests
  <2>2. ASSUME m.type = "reconnect" PROVE Claim(owner[c], m.token)'
    <3>1. m.token \in Token
      BY <2>1, <2>2 DEF Asked
    <3> QED
      BY <1>1, <2>2, <3>1 DEF OwnRequests
  <2> QED
    BY <1>2, <2>1, <2>2 DEF OwnRequests
<1>4. ASSUME NEW m \in OwnMessages(c) PROVE m \in OwnMessages(c)'
  <2>1. m \in Message
    BY DEF OwnMessages
  <2>2. ASSUME m.type = "created" PROVE Claim(owner[c], Seat(m.session, 0))'
    <3>1. Seat(m.session, 0) \in Token
      BY <2>1, <2>2 DEF Message, Token, Seat
    <3> QED
      BY <1>1, <2>2, <3>1 DEF OwnMessages
  <2>3. ASSUME m.type = "joined", m.token # NoSeat PROVE Claim(owner[c], m.token)'
    <3>1. m.token \in Token
      BY <2>1, <2>3 DEF Message
    <3> QED
      BY <1>1, <2>3, <3>1 DEF OwnMessages
  <2> QED
    BY <2>1, <2>2, <2>3 DEF OwnMessages
<1> QED
  BY <1>2, <1>3, <1>4

LEMMA AnnouncedKept ==
  ASSUME PeopleStay, SeatsStay, NEW code, Announced(code)
  PROVE  Announced(code)'
<1>1. code \in Sessions /\ code \in Sessions'
  BY DEF Announced, PeopleStay
<1>2. ASSUME NEW c \in Conns, pc'[c] = "create" PROVE seat'[c].code # code
  <2>1. \/ pc[c] = "create" /\ seat'[c].code = seat[c].code
        \/ seat'[c].code \notin Sessions
    BY <1>2 DEF SeatsStay
  <2> QED
    BY <1>1, <2>1 DEF Announced
<1> QED
  BY <1>1, <1>2 DEF Announced

\* The seat of a page that is still its connection's.
LEMMA SeatStays ==
  ASSUME StateTypes, StateTypes', PageTypes, PeopleStay, NamesStay,
         NEW c \in Conns, OwnSeat(c), seat'[c] = seat[c],
         pc'[c] = pc[c] \/ {pc[c], pc'[c]} \subseteq {"read", "leave", "reconnect"}
  PROVE  OwnSeat(c)'
<1>1. seat[c] \in Token
  BY DEF StateTypes
<1>2. Settled(c)' => Settled(c)
  BY DEF Settled
<1>3. ASSUME Settled(c)' PROVE Claim(owner[c], seat[c])'
  <2>1. Claim(owner[c], seat[c])
    BY <1>2, <1>3 DEF OwnSeat
  <2>2. PICK p, t : p = owner[c] /\ t = seat[c]
    OBVIOUS
  <2>3. Claim(p, t)'
    BY <1>1, <2>1, <2>2, ClaimStays
  <2>4. p \in Pages
    BY <2>1, <2>2 DEF Claim
  <2>5. owner'[c] = p
    BY <2>2, <2>4, ClientAssumption DEF NamesStay
  <2> QED
    BY <2>2, <2>3, <2>5
<1>4. pc'[c] \in {"create", "join"} => OwnKey(c)'
  BY OwnStays DEF OwnSeat
<1> QED
  BY <1>3, <1>4 DEF OwnSeat

LEMMA PageStays ==
  ASSUME StateTypes, StateTypes', PageTypes, PeopleStay, SeatsStay, NamesStay,
         NEW p \in Pages, page'[p] = page[p], ConnOk(p), TokenOk(p), KeysOk(p)
  PROVE  ConnOk(p)' /\ TokenOk(p)' /\ KeysOk(p)'
<1>1. PICK me \in Client : me = page[p]
  BY DEF PageTypes
<1>2. ConnOk(p)'
  <2>1. \A c \in Conns : owner[c] = p => owner'[c] = p
    BY ClientAssumption DEF NamesStay
  <2>2. /\ me.key # None => me.key \in Conns /\ owner[me.key] = p
        /\ me.ws # None => me.ws \in Conns /\ owner[me.ws] = p
    BY <1>1 DEF Client, ConnOk
  <2> QED
    BY <1>1, <2>1, <2>2 DEF ConnOk
<1>3. TokenOk(p)'
  <2>1. ASSUME me.token # None PROVE Claim(p, me.token)'
    <3>1. me.token \in Token /\ Claim(p, me.token)
      BY <1>1, <2>1 DEF Client, TokenOk
    <3> QED
      BY <3>1, ClaimStays
  <2>2. ASSUME me.sessionCode # None PROVE Announced(me.sessionCode)'
    BY <1>1, <2>2, AnnouncedKept DEF TokenOk
  <2> QED
    BY <1>1, <2>1, <2>2 DEF TokenOk
<1>4. KeysOk(p)'
  <2>1. PICK k, code : k = me.key /\ code = seat[k].code
    OBVIOUS
  <2>2. ASSUME k # None, Settled(k)
        PROVE  Settled(k)' /\ seat'[k] = seat[k]
    <3>1. k \in Conns
      BY <1>1, <2>1, <2>2 DEF Client
    <3> QED
      BY <2>2, <3>1 DEF SeatsStay
  <2>3. ASSUME me.gate # <<>>
        PROVE  k # None /\ Settled(k)' /\ seat'[k].code = code /\ Heard(me.gate, code)'
    <3>1. k # None /\ Settled(k) /\ Heard(me.gate, code)
      BY <1>1, <2>1, <2>3 DEF KeysOk
    <3>2. Len(me.gate) \in Nat
      <4>1. me.gate \in Seq(Conns)
        BY <1>1 DEF Client
      <4> QED
        BY <4>1, LenProperties
    <3>3. Heard(me.gate, code)'
      BY <3>1, <3>2, HeardStays
    <3> QED
      BY <2>1, <2>2, <3>1, <3>3
  <2>4. ASSUME NEW i \in DOMAIN me.peerKeys
        PROVE  /\ k # None /\ Settled(k)' /\ seat'[k].code = code /\ code \in Sessions'
               /\ i \in Nat /\ i < Len(session'[code].party)
               /\ me.peerKeys[i] = {k, session'[code].party[i + 1].key}
    <3>1. /\ k # None /\ Settled(k) /\ code \in Sessions
          /\ i \in Nat /\ i < Len(session[code].party)
          /\ me.peerKeys[i] = {k, session[code].party[i + 1].key}
      BY <1>1, <2>1 DEF KeysOk
    <3>2. i + 1 \in 1 .. Len(session[code].party)
      BY <3>1, PartyIndex
    <3>3. /\ code \in Sessions' /\ Len(session[code].party) <= Len(session'[code].party)
          /\ session'[code].party[i + 1].key = session[code].party[i + 1].key
      BY <3>1, <3>2 DEF PeopleStay
    <3>4. Len(session[code].party) \in Nat /\ Len(session'[code].party) \in Nat
      <4>1. session[code] \in Session /\ session'[code] \in Session
        BY <3>1, <3>3 DEF StateTypes, Session
      <4> QED
        BY <4>1, KeysAll
    <3>5. i < Len(session'[code].party)
      BY <3>1, <3>3, <3>4
    <3> QED
      BY <2>1, <2>2, <3>1, <3>3, <3>5
  <2>5. page'[p].key = k /\ page'[p].gate = me.gate /\ page'[p].peerKeys = me.peerKeys
    BY <1>1, <2>1
  <2>6. seat'[k].code = code => KeysOk(p)'
    BY <2>3, <2>4, <2>5 DEF KeysOk
  <2>7. seat'[k].code # code => me.gate = <<>> /\ DOMAIN me.peerKeys = {}
    BY <2>3, <2>4
  <2> QED
    BY <2>5, <2>6, <2>7 DEF KeysOk
<1> QED
  BY <1>2, <1>3, <1>4

-----------------------------------------------------------------------------
(* A step of the server: one goroutine, or a connection coming or going.   *)
Taken(c) ==
  \A d \in Conns :
    \/ inbox'[d] = inbox[d]
    \/ d = c /\ inbox[d] # <<>> /\ inbox'[d] = Tail(inbox[d])

LEMMA ServerSide ==
  ASSUME HubInv, HubInv', ClientInv, UNCHANGED <<owner, page>>, PeopleStay, NEW c,
         \A d \in Conns \ {c} : seat'[d] = seat[d] /\ pc'[d] = pc[d],
         Settled(c) => seat'[c] = seat[c] /\ pc'[c] \in {"read", "leave"} \cup {pc[c]},
         pc'[c] = "create" =>
           \/ pc[c] = "create" /\ seat'[c].code = seat[c].code
           \/ seat'[c].code \notin Sessions,
         c \in Conns => OwnSeat(c)',
         \A code \in Sessions' : \A i \in 1 .. Len(session'[code].party) :
           \/ code \in Sessions /\ i \in 1 .. Len(session[code].party)
           \/ /\ session'[code].party[i].key = c /\ c \in Conns
              /\ seat'[c] = Seat(code, i - 1) /\ pc'[c] = "read",
         Taken(c),
         \A d \in Conns : todo'[d] \in Seq(TrueWrites) /\ wire'[d] \in Seq(OwnMessages(d)),
         \A d \in Conns : Blank(d) => wire'[d] = <<>>,
         Blank(c) => seat'[c] = NoSeat /\ pc'[c] \in {"read", "leave"}
  PROVE  ClientInv'
<1>1. /\ StateTypes /\ StateTypes' /\ PageTypes /\ Homes /\ OwnQueues /\ OwnSeats
      /\ Blanks /\ PagesOk
  BY DEF HubInv, ClientInv
<1>2. NamesStay
  BY DEF NamesStay
<1>3. PageTypes'
  BY <1>1 DEF PageTypes
<1>4. SeatsStay
  <2>1. \A d \in Conns : Settled(d) => Settled(d)' /\ seat'[d] = seat[d]
    BY DEF Settled
  <2> QED
    BY <2>1 DEF SeatsStay
<1>5. Homes'
  <2> SUFFICES ASSUME NEW code \in Sessions', NEW i \in 1 .. Len(session'[code].party),
                      NEW k, k = session'[code].party[i].key
               PROVE  k \in Conns /\ seat'[k] = Seat(code, i - 1) /\ pc'[k] \in {"read", "leave"}
    BY DEF Homes
  <2>1. CASE code \in Sessions /\ i \in 1 .. Len(session[code].party)
    <3>1. k = session[code].party[i].key
      BY <2>1 DEF PeopleStay
    <3>2. k \in Conns /\ seat[k] = Seat(code, i - 1) /\ pc[k] \in {"read", "leave"}
      BY <1>1, <2>1, <3>1 DEF Homes
    <3>3. seat[k] # NoSeat
      BY <1>1, <2>1, <3>2, NoneIsNoSession DEF Seat
    <3> QED
      BY <3>2, <3>3 DEF Settled
  <2>2. CASE k = c /\ c \in Conns /\ seat'[c] = Seat(code, i - 1) /\ pc'[c] = "read"
    BY <2>2
  <2> QED
    BY <2>1, <2>2
<1>6. OwnQueues'
  <2> SUFFICES ASSUME NEW d \in Conns
               PROVE  /\ inbox'[d] \in Seq(OwnRequests(d)')
                      /\ wire'[d] \in Seq(OwnMessages(d)')
                      /\ todo'[d] \in Seq(TrueWrites)
    BY DEF OwnQueues, TrueWrites, TrueWrite
  <2>1. OwnRequests(d) \subseteq OwnRequests(d)' /\ OwnMessages(d) \subseteq OwnMessages(d)'
    BY <1>1, <1>2, OwnStays
  <2>2. inbox[d] \in Seq(OwnRequests(d))
    BY <1>1 DEF OwnQueues
  <2>3. inbox'[d] \in Seq(OwnRequests(d))
    <3>1. inbox[d] # <<>> => Tail(inbox[d]) \in Seq(OwnRequests(d))
      BY <2>2, HeadTailProperties
    <3> QED
      BY <2>2, <3>1 DEF Taken
  <2> QED
    BY <2>1, <2>3, SeqMonotonic
<1>7. OwnSeats'
  <2> SUFFICES ASSUME NEW d \in Conns, d # c PROVE OwnSeat(d)'
    BY DEF OwnSeats
  <2>1. seat'[d] = seat[d] /\ pc'[d] = pc[d] /\ OwnSeat(d)
    BY <1>1 DEF OwnSeats
  <2> QED
    BY <1>1, <1>2, <2>1, SeatStays
<1>8. Blanks'
  <2> SUFFICES ASSUME NEW d \in Conns, Silent(d) PROVE Blank(d)'
    BY DEF Blanks, Silent
  <2>1. Blank(d)
    BY <1>1 DEF Blanks
  <2>2. inbox'[d] = <<>>
    BY <2>1 DEF Blank, Taken
  <2>3. seat'[d] = NoSeat /\ pc'[d] \in {"read", "leave"}
    BY <2>1 DEF Blank
  <2> QED
    BY <2>1, <2>2, <2>3 DEF Blank, NoSeat, Seat
<1>9. PagesOk'
  <2> SUFFICES ASSUME NEW p \in Pages PROVE ConnOk(p)' /\ TokenOk(p)' /\ KeysOk(p)'
    BY DEF PagesOk
  <2>1. ConnOk(p) /\ TokenOk(p) /\ KeysOk(p) /\ page'[p] = page[p]
    BY <1>1 DEF PagesOk
  <2> QED
    BY <1>1, <1>2, <1>4, <2>1, PageStays
<1> QED
  BY <1>3, <1>5, <1>6, <1>7, <1>8, <1>9 DEF ClientInv

LEMMA SameStay ==
  ASSUME HubInv, SamePeople
  PROVE  PeopleStay
<1>1. \A x \in Sessions : Len(session[x].party) \in Nat
  BY KeysAll DEF HubInv, StateTypes
<1> QED
  BY <1>1 DEF PeopleStay, SamePeople

\* One that leaves everybody where they are.
LEMMA QuietServer ==
  ASSUME HubInv, HubInv', ClientInv, UNCHANGED <<owner, page, seat>>, SamePeople, NEW c,
         \A d \in Conns \ {c} : pc'[d] = pc[d],
         \/ pc'[c] = pc[c]
         \/ pc[c] \in {"read", "reconnect"} /\ pc'[c] \in {"read", "leave"},
         Taken(c),
         \A d \in Conns : todo'[d] \in Seq(TrueWrites) /\ wire'[d] \in Seq(OwnMessages(d)),
         \A d \in Conns : Blank(d) => wire'[d] = <<>>
  PROVE  ClientInv'
<1>1. StateTypes /\ StateTypes' /\ PageTypes /\ OwnSeats
  BY DEF HubInv, ClientInv
<1>2. PeopleStay /\ NamesStay
  BY SameStay DEF NamesStay
<1>3. c \in Conns => OwnSeat(c)'
  BY <1>1, <1>2, SeatStays DEF OwnSeats
<1>4. Settled(c) => seat'[c] = seat[c] /\ pc'[c] \in {"read", "leave"} \cup {pc[c]}
  OBVIOUS
<1>5. pc'[c] = "create" =>
        \/ pc[c] = "create" /\ seat'[c].code = seat[c].code
        \/ seat'[c].code \notin Sessions
  OBVIOUS
<1>6. \A code \in Sessions' : \A i \in 1 .. Len(session'[code].party) :
        code \in Sessions /\ i \in 1 .. Len(session[code].party)
  BY DEF SamePeople
<1>7. Blank(c) => seat'[c] = NoSeat /\ pc'[c] \in {"read", "leave"}
  BY DEF Blank
<1> QED
  BY <1>2, <1>3, <1>4, <1>5, <1>6, <1>7, ServerSide

LEMMA SameSession ==
  ASSUME HubInv, UNCHANGED session
  PROVE  SamePeople
  BY DEF HubInv, StateTypes, SamePeople, Sessions

LEMMA OwnNow ==
  ASSUME ClientInv, NEW c \in Conns
  PROVE  /\ inbox[c] \in Seq(OwnRequests(c)) /\ wire[c] \in Seq(OwnMessages(c))
         /\ todo[c] \in Seq(TrueWrites)
  BY DEF ClientInv, OwnQueues

LEMMA RefusedSide ==
  ASSUME HubInv, HubInv', ClientInv, UNCHANGED clientVars,
         NEW c \in Conns, NEW type, Take(c, type), SendError(c)
  PROVE  ClientInv'
<1>1. inbox[c] # <<>> /\ inbox' = [inbox EXCEPT ![c] = Tail(@)]
  BY DEF Take
<1>2. /\ wire' = [wire EXCEPT ![c] = Append(@, [type |-> "error"])]
      /\ UNCHANGED <<pc, todo, seat, session, owner, page>>
  BY DEF SendError, clientVars
<1>3. DOMAIN inbox = Conns /\ DOMAIN wire = Conns
  BY DEF HubInv, StateTypes
<1>4. Append(wire[c], [type |-> "error"]) \in Seq(OwnMessages(c))
  <2>1. [type |-> "error"] \in OwnMessages(c)
    BY DEF OwnMessages, Message
  <2> QED
    BY <2>1, OwnNow, AppendProperties
<1>5. \A d \in Conns : todo'[d] \in Seq(TrueWrites) /\ wire'[d] \in Seq(OwnMessages(d))
  BY <1>2, <1>3, <1>4, OwnNow
<1>6. \A d \in Conns : Blank(d) => wire'[d] = <<>>
  BY <1>1, <1>2, <1>3 DEF Blank
<1>7. Taken(c)
  BY <1>1, <1>3 DEF Taken
<1> QED
  BY <1>2, <1>5, <1>6, <1>7, SameSession, QuietServer

\* Connections come and go.
LEMMA NetworkSide ==
  ASSUME HubInv, HubInv', ClientInv, UNCHANGED clientVars,
         NEW c \in Conns, Network(c) \/ Release(c)
  PROVE  ClientInv'
<1>1. UNCHANGED <<inbox, wire, pc, todo, seat, session, owner, page>>
  BY DEF Network, AddIP, Accept, AcceptFails, Hangup, Release, clientVars
<1>2. \A d \in Conns : /\ todo'[d] \in Seq(TrueWrites) /\ wire'[d] \in Seq(OwnMessages(d))
                       /\ Blank(d) => wire'[d] = <<>>
  BY <1>1, OwnNow DEF Blank
<1>3. Taken(c)
  BY <1>1 DEF Taken
<1> QED
  BY <1>1, <1>2, <1>3, SameSession, QuietServer

LEMMA AgingSide ==
  ASSUME HubInv, HubInv', ClientInv, UNCHANGED clientVars, Cleanup \/ AbandonTimeout
  PROVE  ClientInv'
<1>1. UNCHANGED <<inbox, wire, pc, todo, seat, owner, page>>
  BY DEF Cleanup, SweepStart, SweepLook, SweepFlag, SweepDelete, AbandonTimeout, hubVars, clientVars
<1>2. SamePeople
  <2>1. CASE Cleanup
    BY <2>1, SameSession DEF Cleanup, SweepStart, SweepLook, SweepFlag, SweepDelete, hubVars
  <2>2. CASE AbandonTimeout
    <3>1. PICK code \in listed : session' = [session EXCEPT ![code].stale = TRUE]
      BY <2>2 DEF AbandonTimeout
    <3>2. code \in Sessions
      BY DEF HubInv, StateTypes
    <3> QED
      BY <3>1, <3>2, StaleOnly
  <2> QED
    BY <2>1, <2>2
<1>3. \A d \in Conns : /\ todo'[d] \in Seq(TrueWrites) /\ wire'[d] \in Seq(OwnMessages(d))
                       /\ Blank(d) => wire'[d] = <<>>
  BY <1>1, OwnNow DEF Blank
<1>4. Taken(None)
  BY <1>1 DEF Taken
<1> QED
  BY <1>1, <1>2, <1>3, <1>4, QuietServer

-----------------------------------------------------------------------------
(* Writes. *)
LEMMA TodoTrue ==
  ASSUME HubInv', NEW c \in Conns,
         \A i \in 1 .. Len(todo'[c]) : TrueWrite(todo'[c][i])
  PROVE  todo'[c] \in Seq(TrueWrites)
<1>1. PICK q : q = todo'[c]
  OBVIOUS
<1>2. q \in Seq(OkWrites(c)')
  BY <1>1 DEF HubInv, QueuesOk
<1>3. \A i \in 1 .. Len(q) : q[i] \in WriteOrder
  <2> SUFFICES ASSUME NEW i \in 1 .. Len(q) PROVE q[i] \in WriteOrder
    OBVIOUS
  <2>1. q[i] \in OkWrites(c)'
    BY <1>2, ElementOfSeq
  <2> QED
    BY <2>1 DEF OkWrites, WriteOrder, Message
<1>4. q \in Seq(TrueWrites)
  <2>1. Len(q) \in Nat /\ q \in [1 .. Len(q) -> OkWrites(c)']
    BY <1>2, LenProperties
  <2>2. q \in [1 .. Len(q) -> TrueWrites]
    BY <1>1, <1>3, <2>1 DEF TrueWrites
  <2> QED
    BY <2>1, <2>2, SeqDef
<1> QED
  BY <1>1, <1>4

\* What a connection is written for its party names a seat of its page.
LEMMA DeliveredOwn ==
  ASSUME HubInv, ClientInv, NEW c \in Conns, NEW w, w \in OkWrites(c), w \in TrueWrites, ~w.all,
         session[w.code].party[w.party + 1].connected
  PROVE  LET d == session[w.code].party[w.party + 1].conn IN
         /\ d \in Conns /\ seat[d] # NoSeat /\ w.msg \in OwnMessages(d)
<1>1. /\ w.msg \in Message /\ w.party \in Nat /\ w.code \in Sessions
      /\ w.party < Len(session[w.code].party)
      /\ w.msg.type = "created" => w.msg.session = w.code
  BY DEF OkWrites, WriteOrder
<1>2. /\ w.msg.type = "created" => w.party = 0
      /\ w.msg.type = "joined" /\ w.msg.token # NoSeat => w.msg.token = Seat(w.code, w.party)
  BY DEF TrueWrites, TrueWrite
<1>3. w.party + 1 \in 1 .. Len(session[w.code].party)
  BY <1>1, PartyIndex DEF HubInv
<1>4. PICK d : d = session[w.code].party[w.party + 1].conn
  OBVIOUS
<1>5. d \in Conns /\ seat[d] = Seat(w.code, w.party + 1 - 1) /\ pc[d] = "read"
  BY <1>1, <1>3, <1>4, AttachedNow
<1>6. seat[d] = Seat(w.code, w.party)
  BY <1>1, <1>5
<1>7. seat[d] # NoSeat
  BY <1>1, <1>5, <1>6, NoneIsNoSession DEF HubInv, Seat
<1>8. Claim(owner[d], Seat(w.code, w.party))
  <2>1. Settled(d)
    BY <1>5, <1>7 DEF Settled
  <2>2. Claim(owner[d], seat[d])
    BY <1>5, <2>1 DEF ClientInv, OwnSeats, OwnSeat
  <2> QED
    BY <1>6, <2>2
<1>9. w.msg \in OwnMessages(d)
  BY <1>1, <1>2, <1>8 DEF OwnMessages
<1> QED
  BY <1>4, <1>5, <1>7, <1>9

LEMMA WriteSide ==
  ASSUME HubInv, HubInv', ClientInv, UNCHANGED clientVars, NEW c \in Conns, Write(c)
  PROVE  ClientInv'
<1>1. PICK w \in OkWrites(c) : \E p : \E n \in Nat : WriteDoes(c, w, p, n)
  BY WriteIs
<1>2. PICK p : \E n \in Nat : WriteDoes(c, w, p, n)
  BY <1>1
<1>3. PICK n \in Nat : WriteDoes(c, w, p, n)
  BY <1>2
<1>4. todo[c] # <<>> /\ w = Head(todo[c]) /\ p = session[w.code].party[w.party + 1]
  BY <1>3 DEF WriteDoes
<1>5. w \in TrueWrites /\ Tail(todo[c]) \in Seq(TrueWrites)
  BY Zenon, <1>4, OwnNow, HeadTailProperties
<1>6. UNCHANGED <<inbox, pc, seat, session, owner, page>>
  BY Zenon DEF Write, clientVars
<1>7. DOMAIN todo = Conns /\ DOMAIN wire = Conns
  BY DEF HubInv, StateTypes
<1>8. w.all => Copied(w, n) \in Seq(TrueWrites)
  <2> SUFFICES ASSUME w.all PROVE Copied(w, n) \in Seq(TrueWrites)
    OBVIOUS
  <2>1. w.code \in Sessions /\ w.party \in Nat /\ w \in WriteOrder
    BY DEF OkWrites, WriteOrder
  <2>2. ASSUME NEW i \in 0 .. n - 1 PROVE Send(w.code, i, w.msg) \in TrueWrites
    <3>1. Send(w.code, i, w.msg) \in WriteOrder
      BY <2>1 DEF Send, WriteOrder
    <3>2. TrueWrite(Send(w.code, i, w.msg))
      BY <1>5 DEF TrueWrites, TrueWrite, Send
    <3> QED
      BY <3>1, <3>2 DEF TrueWrites
  <2> QED
    BY <2>1, <2>2, CopiedGood
<1>9. \A d \in Conns : todo'[d] \in Seq(TrueWrites)
  <2>1. PICK q \in Seq(TrueWrites) :
          q = IF w.all THEN Copied(w, n) \o Tail(todo[c]) ELSE Tail(todo[c])
    BY <1>5, <1>8, ConcatProperties
  <2>2. todo' = [todo EXCEPT ![c] = q]
    BY Zenon, <1>3, <2>1 DEF WriteDoes
  <2>3. \A d \in Conns : todo[d] \in Seq(TrueWrites)
    BY OwnNow
  <2> QED
    BY <1>7, <2>2, <2>3
<1>10. ASSUME NEW d \in Conns
       PROVE  wire'[d] \in Seq(OwnMessages(d)) /\ (Blank(d) => wire'[d] = <<>>)
  <2>1. wire[d] \in Seq(OwnMessages(d)) /\ (Blank(d) => wire[d] = <<>>)
    BY OwnNow DEF Blank
  <2>2. CASE w.all \/ ~p.connected
    BY Zenon, <1>3, <2>1, <2>2 DEF WriteDoes
  <2>3. CASE ~w.all /\ p.connected
    <3>1. p.conn \in Conns /\ seat[p.conn] # NoSeat /\ w.msg \in OwnMessages(p.conn)
      BY Zenon, <1>4, <1>5, <2>3, DeliveredOwn
    <3>2. wire[p.conn] \in Seq(OwnMessages(p.conn))
      BY <3>1, OwnNow
    <3>3. PICK q \in Seq(OwnMessages(p.conn)) : q = Append(wire[p.conn], w.msg)
      BY <3>1, <3>2, AppendProperties
    <3>4. wire' = [wire EXCEPT ![p.conn] = q]
      BY Zenon, <1>3, <2>3, <3>3 DEF WriteDoes
    <3>5. CASE d = p.conn
      BY <1>7, <3>1, <3>4, <3>5 DEF Blank
    <3>6. CASE d # p.conn
      BY <1>7, <2>1, <3>4, <3>6
    <3> QED
      BY <3>5, <3>6
  <2> QED
    BY <2>2, <2>3
<1>11. Taken(c)
  BY <1>6 DEF Taken
<1>12. \A d \in Conns : todo'[d] \in Seq(TrueWrites) /\ wire'[d] \in Seq(OwnMessages(d))
  BY <1>9, <1>10
<1> QED
  BY <1>6, <1>10, <1>11, <1>12, SameSession, QuietServer

LEMMA HandleRelaySide ==
  ASSUME HubInv, HubInv', ClientInv, UNCHANGED clientVars, NEW c \in Conns, HandleRelay(c)
  PROVE  ClientInv'
<1>1. Take(c, "relay")
  BY DEF HandleRelay
<1>2. CASE SendError(c)
  BY <1>1, <1>2, RefusedSide
<1>3. CASE ~SendError(c)
  <2>1. PICK m, code, id : m = Head(inbox[c]) /\ code = seat[c].code /\ id = seat[c].id
    OBVIOUS
  <2> DEFINE out == [type |-> "relay", from |-> id, to |-> m.to, payload |-> m.payload]
             q == <<Send(code, m.to, out)>>
  <2>2. /\ ~RelayRefused(c, m.to)
        /\ session' = [session EXCEPT ![code].stale = FALSE]
        /\ todo' = [todo EXCEPT ![c] = q]
        /\ UNCHANGED <<wire, pc, seat, owner, page>>
    BY <1>3, <2>1 DEF HandleRelay, clientVars
  <2>3. inbox' = [inbox EXCEPT ![c] = Tail(@)] /\ inbox[c] # <<>>
    BY <1>1 DEF Take
  <2>4. SamePeople
    <3> HIDE DEF q, out
    <3>1. code \in Sessions
      BY <2>1, <2>2 DEF RelayRefused, HubInv, SeatsOk
    <3> QED
      BY <2>2, <3>1, StaleOnly
  <2>5. Len(q) = 1 /\ TrueWrite(q[1])
    BY DEF TrueWrite, Send
  <2> HIDE DEF q, out
  <2>6. /\ DOMAIN inbox = Conns /\ todo'[c] = q
        /\ \A d \in Conns : d # c => todo'[d] = todo[d]
    BY <2>2 DEF HubInv, StateTypes
  <2>7. todo'[c] \in Seq(TrueWrites)
    BY <2>5, <2>6, TodoTrue
  <2>8. \A d \in Conns : /\ todo'[d] \in Seq(TrueWrites) /\ wire'[d] \in Seq(OwnMessages(d))
                         /\ Blank(d) => wire'[d] = <<>>
    BY <2>2, <2>6, <2>7, OwnNow DEF Blank
  <2>9. Taken(c)
    BY <2>3, <2>6 DEF Taken
  <2> QED
    BY <2>2, <2>4, <2>8, <2>9, QuietServer
<1> QED
  BY <1>2, <1>3

LEMMA ReattachSide ==
  ASSUME HubInv, HubInv', ClientInv, UNCHANGED clientVars, NEW c \in Conns, Reattach(c)
  PROVE  ClientInv'
<1>1. PICK code, id : code = seat[c].code /\ id = seat[c].id
  OBVIOUS
<1> DEFINE back == [type |-> "reconnected", partyId |-> id]
           q == <<Send(code, id, back), Broadcast(code, back, id)>>
<1>2. /\ pc[c] = "reconnect" /\ pc' = [pc EXCEPT ![c] = "read"]
      /\ todo' = [todo EXCEPT ![c] = q]
      /\ UNCHANGED <<inbox, wire, seat, owner, page>>
  BY <1>1 DEF Reattach, clientVars
<1>3. SamePeople
  BY ReattachMoves DEF Moved
<1>4. Len(q) = 2 /\ TrueWrite(q[1]) /\ TrueWrite(q[2])
  BY DEF TrueWrite, Send, Broadcast
<1> HIDE DEF q
<1>5. /\ todo'[c] = q /\ pc'[c] = "read"
      /\ \A d \in Conns : d # c => todo'[d] = todo[d] /\ pc'[d] = pc[d]
  BY <1>2 DEF HubInv, StateTypes
<1>6. todo'[c] \in Seq(TrueWrites)
  <2>1. \A i \in 1 .. Len(q) : TrueWrite(q[i])
    BY <1>4
  <2> QED
    BY <1>5, <2>1, TodoTrue
<1>7. \A d \in Conns : /\ todo'[d] \in Seq(TrueWrites) /\ wire'[d] \in Seq(OwnMessages(d))
                       /\ Blank(d) => wire'[d] = <<>>
  BY <1>2, <1>5, <1>6, OwnNow DEF Blank
<1>8. Taken(c)
  BY <1>2 DEF Taken
<1> QED
  BY <1>2, <1>3, <1>5, <1>7, <1>8, QuietServer

LEMMA DisconnectSide ==
  ASSUME HubInv, HubInv', ClientInv, UNCHANGED clientVars, NEW c \in Conns, Disconnect(c)
  PROVE  ClientInv'
<1>1. /\ pc[c] = "read" /\ pc' = [pc EXCEPT ![c] = "leave"]
      /\ UNCHANGED <<inbox, wire, seat, owner, page>>
  BY DEF Disconnect, Reading, clientVars
<1>2. pc'[c] = "leave" /\ \A d \in Conns : d # c => pc'[d] = pc[d]
  BY <1>1 DEF HubInv, StateTypes
<1>3. SamePeople /\ todo'[c] \in Seq(TrueWrites) /\ \A d \in Conns : d # c => todo'[d] = todo[d]
  <2>1. CASE seat[c] = NoSeat
    <3>1. UNCHANGED <<session, todo>>
      BY <2>1 DEF Disconnect
    <3> QED
      BY <3>1, SameSession, OwnNow
  <2>2. CASE seat[c] # NoSeat
    <3>1. PICK code, id : code = seat[c].code /\ id = seat[c].id
      OBVIOUS
    <3> DEFINE q == <<Broadcast(code, [type |-> "left", partyId |-> id], id)>>
    <3>2. todo' = [todo EXCEPT ![c] = q]
      BY <2>2, <3>1 DEF Disconnect
    <3>3. Len(q) = 1 /\ TrueWrite(q[1])
      BY DEF TrueWrite, Broadcast
    <3> HIDE DEF q
    <3>4. todo'[c] = q /\ \A d \in Conns : d # c => todo'[d] = todo[d]
      BY <3>2 DEF HubInv, StateTypes
    <3>5. todo'[c] \in Seq(TrueWrites)
      BY <3>3, <3>4, TodoTrue
    <3>6. SamePeople
      BY <2>2, DisconnectMoves DEF Moved
    <3> QED
      BY <3>4, <3>5, <3>6
  <2> QED
    BY <2>1, <2>2
<1>4. \A d \in Conns : /\ todo'[d] \in Seq(TrueWrites) /\ wire'[d] \in Seq(OwnMessages(d))
                       /\ Blank(d) => wire'[d] = <<>>
  BY <1>1, <1>3, OwnNow DEF Blank
<1>5. Taken(c)
  BY <1>1 DEF Taken
<1> QED
  BY <1>1, <1>2, <1>3, <1>4, <1>5, QuietServer

-----------------------------------------------------------------------------
(* A goroutine takes a seat for its page. *)
LEMMA HeadOwn ==
  ASSUME ClientInv, NEW c \in Conns, NEW type, Take(c, type)
  PROVE  Head(inbox[c]) \in OwnRequests(c) /\ Head(inbox[c]).type = type
<1>1. inbox[c] \in Seq(OwnRequests(c)) /\ inbox[c] # <<>>
  BY OwnNow DEF Take
<1> QED
  BY <1>1, HeadTailProperties DEF Take

LEMMA SeatSide ==
  ASSUME HubInv, HubInv', ClientInv, UNCHANGED clientVars,
         NEW c \in Conns, NEW type, Take(c, type), seat[c] = NoSeat,
         NEW half \in {"create", "join", "reconnect"}, NEW t,
         pc' = [pc EXCEPT ![c] = half], seat' = [seat EXCEPT ![c] = t],
         UNCHANGED <<wire, todo>>, PeopleStay,
         half = "create" => t.code \notin Sessions,
         \A code \in Sessions' : \A i \in 1 .. Len(session'[code].party) :
           code \in Sessions /\ i \in 1 .. Len(session[code].party),
         OwnSeat(c)'
  PROVE  ClientInv'
<1>1. /\ inbox' = [inbox EXCEPT ![c] = Tail(@)] /\ inbox[c] # <<>>
      /\ UNCHANGED <<owner, page>>
  BY DEF Take, clientVars
<1>2. /\ pc'[c] = half /\ seat'[c] = t
      /\ \A d \in Conns \ {c} : seat'[d] = seat[d] /\ pc'[d] = pc[d]
      /\ Taken(c)
  BY <1>1 DEF HubInv, StateTypes, Taken
<1>3. ~Blank(c) /\ ~Settled(c)
  BY <1>1 DEF Blank, Settled
<1>4. \A d \in Conns : /\ todo'[d] \in Seq(TrueWrites) /\ wire'[d] \in Seq(OwnMessages(d))
                       /\ Blank(d) => wire'[d] = <<>>
  BY OwnNow DEF Blank
<1> QED
  BY <1>1, <1>2, <1>3, <1>4, ServerSide

LEMMA HandleCreateSide ==
  ASSUME HubInv, HubInv', ClientInv, UNCHANGED clientVars, NEW c \in Conns, HandleCreate(c)
  PROVE  ClientInv'
<1>1. Take(c, "create")
  BY DEF HandleCreate
<1>2. CASE SendError(c)
  BY <1>1, <1>2, RefusedSide
<1>3. CASE ~SendError(c)
  <2>1. PICK n : n = Head(inbox[c]).parties
    OBVIOUS
  <2>2. seat[c] = NoSeat /\ UNCHANGED <<wire, todo>>
    BY <1>3 DEF HandleCreate
  <2>3. PICK code \in Codes \ Sessions :
             /\ session' = [x \in Sessions \cup {code} |->
                              IF x = code THEN NewSession(n) ELSE session[x]]
             /\ pc' = [pc EXCEPT ![c] = "create"]
             /\ seat' = [seat EXCEPT ![c] = Seat(code, 0)]
    BY <1>3, <2>1 DEF HandleCreate, Sessions
  <2>4. /\ Sessions' = Sessions \cup {code} /\ session'[code].party = <<>>
        /\ \A x \in Sessions : session'[x] = session[x]
    BY <2>3 DEF Sessions, NewSession
  <2>5. \A x \in Sessions : Len(session[x].party) \in Nat
    BY KeysAll DEF HubInv, StateTypes
  <2>6. PeopleStay
    BY <2>4, <2>5 DEF PeopleStay
  <2>7. \A x \in Sessions' : \A i \in 1 .. Len(session'[x].party) :
          x \in Sessions /\ i \in 1 .. Len(session[x].party)
    BY <2>4
  <2>8. pc'[c] = "create" /\ Seat(code, 0).code = code
    BY <2>3 DEF HubInv, StateTypes, Seat
  <2>9. OwnSeat(c)'
    <3>1. OwnKey(c)
      BY <1>1, HeadOwn DEF OwnRequests
    <3>2. UNCHANGED <<owner, page>>
      BY DEF clientVars
    <3>3. OwnKey(c)'
      BY <3>1, <3>2 DEF OwnKey
    <3> QED
      BY <2>8, <3>3 DEF OwnSeat, Settled
  <2> QED
    BY <1>1, <2>2, <2>3, <2>6, <2>7, <2>8, <2>9, SeatSide
<1> QED
  BY <1>2, <1>3

LEMMA HandleJoinSide ==
  ASSUME HubInv, HubInv', ClientInv, UNCHANGED clientVars, NEW c \in Conns, HandleJoin(c)
  PROVE  ClientInv'
<1>1. Take(c, "join")
  BY DEF HandleJoin
<1>2. CASE SendError(c)
  BY <1>1, <1>2, RefusedSide
<1>3. CASE ~SendError(c)
  <2>1. PICK t : t = Seat(Head(inbox[c]).session, 0)
    OBVIOUS
  <2>2. /\ seat[c] = NoSeat
        /\ pc' = [pc EXCEPT ![c] = "join"] /\ seat' = [seat EXCEPT ![c] = t]
        /\ UNCHANGED <<wire, todo, session>>
    BY <1>3, <2>1 DEF HandleJoin
  <2>3. SamePeople /\ PeopleStay
    BY <2>2, SameSession, SameStay
  <2>4. \A x \in Sessions' : \A i \in 1 .. Len(session'[x].party) :
          x \in Sessions /\ i \in 1 .. Len(session[x].party)
    BY <2>2 DEF Sessions
  <2>5. OwnSeat(c)'
    <3>1. OwnKey(c)
      BY <1>1, HeadOwn DEF OwnRequests
    <3>2. UNCHANGED <<owner, page>>
      BY DEF clientVars
    <3>3. OwnKey(c)' /\ pc'[c] = "join"
      BY <2>2, <3>1, <3>2 DEF OwnKey, HubInv, StateTypes
    <3> QED
      BY <3>3 DEF OwnSeat, Settled
  <2> QED
    BY <1>1, <2>2, <2>3, <2>4, <2>5, SeatSide
<1> QED
  BY <1>2, <1>3

LEMMA HandleReconnectSide ==
  ASSUME HubInv, HubInv', ClientInv, UNCHANGED clientVars, NEW c \in Conns, HandleReconnect(c)
  PROVE  ClientInv'
<1>1. Take(c, "reconnect")
  BY DEF HandleReconnect
<1>2. CASE SendError(c)
  BY <1>1, <1>2, RefusedSide
<1>3. CASE ~SendError(c)
  <2>1. PICK t : t = Head(inbox[c]).token
    OBVIOUS
  <2>2. /\ seat[c] = NoSeat
        /\ pc' = [pc EXCEPT ![c] = "reconnect"] /\ seat' = [seat EXCEPT ![c] = t]
        /\ UNCHANGED <<wire, todo, session>>
    BY <1>3, <2>1 DEF HandleReconnect
  <2>3. SamePeople /\ PeopleStay
    BY <2>2, SameSession, SameStay
  <2>4. \A x \in Sessions' : \A i \in 1 .. Len(session'[x].party) :
          x \in Sessions /\ i \in 1 .. Len(session[x].party)
    BY <2>2 DEF Sessions
  <2>5. OwnSeat(c)'
    <3>1. t \in Token /\ Claim(owner[c], t)
      BY <1>1, <2>1, HeadOwn DEF OwnRequests, Asked
    <3>2. UNCHANGED <<owner, page>>
      BY DEF clientVars
    <3>3. pc'[c] = "reconnect" /\ seat'[c] = t
      BY <2>2 DEF HubInv, StateTypes
    <3>4. Claim(owner[c], t)'
      BY <2>2, <3>1, <3>2 DEF Claim, Sessions
    <3> QED
      BY <3>3, <3>4 DEF OwnSeat, Settled
  <2> QED
    BY <1>1, <2>2, <2>3, <2>4, <2>5, SeatSide
<1> QED
  BY <1>2, <1>3

\* The seat that was taken is the page's: its key goes in.
LEMMA PartyAddedSide ==
  ASSUME HubInv, HubInv', ClientInv, UNCHANGED clientVars,
         NEW c \in Conns, pc[c] \in {"create", "join"},
         NEW code, code = seat[c].code, NEW n, n = Len(session[code].party),
         session' = [session EXCEPT ![code] = AddParty(session[code], c)],
         seat' = [seat EXCEPT ![c] = Seat(code, n)],
         pc' = [pc EXCEPT ![c] = "read"],
         NEW q, todo' = [todo EXCEPT ![c] = q], \A i \in 1 .. Len(q) : TrueWrite(q[i]),
         UNCHANGED <<inbox, wire>>
  PROVE  ClientInv'
<1>1. PICK t : t = AddParty(session[code], c)
  OBVIOUS
<1>2. code \in Sessions /\ session[code] \in Session /\ seat[c] # NoSeat
  BY DEF HubInv, SeatsOk, StateTypes
<1>3. n \in Nat
  BY <1>2, KeysAll
<1>4. /\ Len(t.party) = n + 1 /\ t.party[n + 1] = NewParty(c)
      /\ \A i \in 1 .. n : t.party[i] = session[code].party[i]
  BY <1>1, <1>2, AddPartyIs
<1>5. /\ Sessions' = Sessions /\ session'[code] = t
      /\ \A x \in Sessions : x # code => session'[x] = session[x]
  BY <1>1, <1>2 DEF Sessions, HubInv, StateTypes
<1>6. /\ seat'[c] = Seat(code, n) /\ pc'[c] = "read" /\ todo'[c] = q
      /\ \A d \in Conns \ {c} : seat'[d] = seat[d] /\ pc'[d] = pc[d] /\ todo'[d] = todo[d]
      /\ UNCHANGED <<owner, page>>
  BY DEF HubInv, StateTypes, clientVars
<1>7. PeopleStay
  <2>1. \A x \in Sessions : Len(session[x].party) \in Nat
    BY KeysAll DEF HubInv, StateTypes
  <2> SUFFICES ASSUME NEW x \in Sessions
               PROVE  /\ x \in Sessions' /\ Len(session[x].party) <= Len(session'[x].party)
                      /\ \A i \in 1 .. Len(session[x].party) :
                           session'[x].party[i].key = session[x].party[i].key
    BY DEF PeopleStay
  <2>2. CASE x = code
    BY <1>2, <1>3, <1>4, <1>5, <2>2
  <2>3. CASE x # code
    BY <1>5, <2>1, <2>3
  <2> QED
    BY <2>2, <2>3
<1>8. OwnSeat(c)'
  <2>1. owner[c] \in Pages /\ page[owner[c]].key = c
    BY DEF ClientInv, OwnSeats, OwnSeat, OwnKey
  <2>2. t.party[n + 1].key = c /\ n < Len(t.party)
    <3>1. n < n + 1
      BY Zenon, <1>3, NextIsMore
    <3> QED
      BY <1>4, <3>1 DEF NewParty
  <2>3. Claim(owner[c], Seat(code, n))'
    BY <1>2, <1>5, <1>6, <2>1, <2>2 DEF Claim, Seat
  <2> QED
    BY <1>6, <2>3 DEF OwnSeat
<1>9. \A x \in Sessions' : \A i \in 1 .. Len(session'[x].party) :
        \/ x \in Sessions /\ i \in 1 .. Len(session[x].party)
        \/ /\ session'[x].party[i].key = c /\ c \in Conns
           /\ seat'[c] = Seat(x, i - 1) /\ pc'[c] = "read"
  <2> SUFFICES ASSUME NEW x \in Sessions, NEW i \in 1 .. Len(session'[x].party),
                      i \notin 1 .. Len(session[x].party)
               PROVE  session'[x].party[i].key = c /\ seat'[c] = Seat(x, i - 1)
    BY <1>5, <1>6
  <2>1. x = code
    BY <1>5
  <2>2. i = n + 1 /\ i - 1 = n
    BY <1>3, <1>4, <1>5, <2>1
  <2> QED
    BY <1>4, <1>5, <1>6, <2>1, <2>2 DEF NewParty
<1>10. \A d \in Conns : /\ todo'[d] \in Seq(TrueWrites) /\ wire'[d] \in Seq(OwnMessages(d))
                        /\ Blank(d) => wire'[d] = <<>>
  <2>1. todo'[c] \in Seq(TrueWrites)
    BY <1>6, TodoTrue
  <2> QED
    BY <1>6, <2>1, OwnNow DEF Blank
<1>11. Taken(c) /\ ~Blank(c) /\ ~Settled(c)
  BY <1>2 DEF Taken, Blank, Settled
<1> QED
  BY <1>6, <1>7, <1>8, <1>9, <1>10, <1>11, ServerSide

LEMMA AddCreatorSide ==
  ASSUME HubInv, HubInv', ClientInv, UNCHANGED clientVars, NEW c \in Conns, AddCreator(c)
  PROVE  ClientInv'
<1>1. PICK code, n : code = seat[c].code /\ n = Len(session[code].party)
  OBVIOUS
<1> DEFINE q == <<Send(code, n, [type |-> "created", session |-> code, partyId |-> n])>>
<1>2. /\ pc[c] = "create"
      /\ session' = [session EXCEPT ![code] = AddParty(session[code], c)]
      /\ seat' = [seat EXCEPT ![c] = Seat(code, n)]
      /\ todo' = [todo EXCEPT ![c] = q]
      /\ pc' = [pc EXCEPT ![c] = "read"]
      /\ UNCHANGED <<inbox, wire>>
  BY <1>1 DEF AddCreator
<1>3. n = 0
  <2>1. session[code].party = <<>>
    BY <1>1, <1>2 DEF HubInv, Unentered
  <2> QED
    BY <1>1, <2>1
<1>4. Len(q) = 1 /\ TrueWrite(q[1])
  BY <1>3 DEF TrueWrite, Send
<1> HIDE DEF q
<1>5. \A i \in 1 .. Len(q) : TrueWrite(q[i])
  BY <1>4
<1>6. pc[c] \in {"create", "join"}
  BY <1>2
<1> QED
  BY <1>1, <1>2, <1>5, <1>6, PartyAddedSide

LEMMA AddJoinerSide ==
  ASSUME HubInv, HubInv', ClientInv, UNCHANGED clientVars, NEW c \in Conns, AddJoiner(c)
  PROVE  ClientInv'
<1>1. PICK code : code = seat[c].code
  OBVIOUS
<1>2. PICK n : n = Len(session[code].party)
  OBVIOUS
<1>3. /\ pc[c] = "join" /\ pc' = [pc EXCEPT ![c] = "read"]
      /\ UNCHANGED <<inbox, owner, page>>
  BY DEF AddJoiner, clientVars
<1>4. CASE ~Full(session[code])
  <2>1. PICK k : k = Keys(AddParty(session[code], c))
    OBVIOUS
  <2> DEFINE mine == Send(code, n, [type |-> "joined", partyId |-> n, token |-> Seat(code, n)])
             theirs == Broadcast(code, [type |-> "joined", partyId |-> n, token |-> NoSeat], n)
             all == Broadcast(code, [type |-> "ready", keys |-> k], Nobody)
             q == <<mine, theirs>> \o (IF NowFull(session[code]) THEN <<all>> ELSE <<>>)
  <2>2. /\ session' = [session EXCEPT ![code] = AddParty(session[code], c)]
        /\ seat' = [seat EXCEPT ![c] = Seat(code, n)]
        /\ todo' = [todo EXCEPT ![c] = q]
        /\ UNCHANGED wire
    BY <1>1, <1>2, <1>4, <2>1 DEF AddJoiner
  <2>3. TrueWrite(mine) /\ TrueWrite(theirs) /\ TrueWrite(all)
    BY DEF TrueWrite, Send, Broadcast
  <2> HIDE DEF mine, theirs, all
  <2>4. PICK S : S = {mine, theirs, all}
    OBVIOUS
  <2>5. mine \in S /\ theirs \in S /\ all \in S /\ \A w \in S : TrueWrite(w)
    BY <2>3, <2>4
  <2>6. <<mine, theirs>> \in Seq(S) /\ <<all>> \in Seq(S) /\ <<>> \in Seq(S)
    BY <2>5
  <2>7. q \in Seq(S)
    BY <2>6, ConcatProperties
  <2> HIDE DEF q
  <2>8. \A i \in 1 .. Len(q) : TrueWrite(q[i])
    BY <2>5, <2>7, ElementOfSeq
  <2> QED
    BY <1>1, <1>2, <1>3, <2>2, <2>8, PartyAddedSide
<1>5. CASE Full(session[code])
  <2>1. /\ seat' = [seat EXCEPT ![c] = NoSeat]
        /\ wire' = [wire EXCEPT ![c] = Append(@, [type |-> "error"])]
        /\ UNCHANGED <<session, todo>>
    BY <1>1, <1>5 DEF AddJoiner
  <2>2. /\ seat'[c] = NoSeat /\ pc'[c] = "read" /\ seat[c] # NoSeat
        /\ \A d \in Conns \ {c} : seat'[d] = seat[d] /\ pc'[d] = pc[d]
    BY <1>3, <2>1 DEF HubInv, StateTypes, SeatsOk
  <2>3. Append(wire[c], [type |-> "error"]) \in Seq(OwnMessages(c))
    <3>1. [type |-> "error"] \in OwnMessages(c)
      BY DEF OwnMessages, Message
    <3> QED
      BY <3>1, OwnNow, AppendProperties
  <2>4. \A d \in Conns : /\ todo'[d] \in Seq(TrueWrites) /\ wire'[d] \in Seq(OwnMessages(d))
                         /\ Blank(d) => wire'[d] = <<>>
    BY <2>1, <2>2, <2>3, OwnNow DEF HubInv, StateTypes, Blank
  <2>5. SamePeople /\ PeopleStay
    BY <2>1, SameSession, SameStay
  <2>6. \A x \in Sessions' : \A i \in 1 .. Len(session'[x].party) :
          x \in Sessions /\ i \in 1 .. Len(session[x].party)
    BY <2>1 DEF Sessions
  <2>7. OwnSeat(c)' /\ Taken(c) /\ ~Blank(c) /\ ~Settled(c)
    BY <1>3, <2>2 DEF OwnSeat, Settled, Taken, Blank, NoSeat, Seat
  <2> QED
    BY <1>3, <2>2, <2>4, <2>5, <2>6, <2>7, ServerSide
<1> QED
  BY <1>4, <1>5

LEMMA GoroutineSide ==
  ASSUME HubInv, HubInv', ClientInv, UNCHANGED clientVars,
         NEW c \in Conns, Goroutine(c) \/ Network(c)
  PROVE  ClientInv'
  BY HandleCreateSide, AddCreatorSide, HandleJoinSide, AddJoinerSide, HandleReconnectSide,
     ReattachSide, HandleRelaySide, WriteSide, DisconnectSide, NetworkSide DEF Goroutine

-----------------------------------------------------------------------------
(* A step of a page. *)
LEMMA PageNow ==
  ASSUME ClientInv, NEW p \in Pages
  PROVE  /\ page[p] \in Client /\ ConnOk(p) /\ TokenOk(p) /\ KeysOk(p)
         /\ page[p].ws # None =>
              /\ page[p].ws \in Conns /\ owner[page[p].ws] = p
              /\ page[p].greeted => ~Silent(page[p].ws)
<1>1. page[p] \in Client /\ ConnOk(p) /\ TokenOk(p) /\ KeysOk(p)
  BY DEF ClientInv, PageTypes, PagesOk
<1>2. ASSUME page[p].ws # None
      PROVE  page[p].ws \in Conns /\ owner[page[p].ws] = p
  BY <1>1, <1>2 DEF Client, ConnOk
<1>3. ASSUME page[p].ws # None, page[p].greeted, Silent(page[p].ws)
      PROVE  FALSE
  <2>1. PICK c \in Conns : c = page[p].ws /\ owner[c] = p
    BY <1>2, <1>3
  <2>2. PICK q \in Pages : page[q].ws = c /\ ~page[q].greeted
    BY <1>3, <2>1, ClientAssumption DEF Silent
  <2>3. ConnOk(q)
    BY DEF ClientInv, PagesOk
  <2>4. owner[c] = q
    BY <2>2, <2>3, RelayAssumption DEF ConnOk
  <2> QED
    BY <1>3, <2>1, <2>2, <2>4
<1> QED
  BY <1>1, <1>2, <1>3

LEMMA PageSide ==
  ASSUME HubInv, HubInv', ClientInv, NEW p \in Pages, UNCHANGED <<pc, todo, seat, session>>,
         owner' \in [Conns -> Pages \cup {None}],
         \A c \in Conns : owner'[c] = owner[c] \/ owner[c] = None,
         NEW me \in Client, page' = [page EXCEPT ![p] = me],
         page[p].key # None => me.key = page[p].key,
         \A c \in Conns :
           /\ inbox'[c] = inbox[c] \/ inbox'[c] \in Seq(OwnRequests(c)')
           /\ \/ wire'[c] = wire[c]
              \/ wire[c] # <<>> /\ wire'[c] = Tail(wire[c])
           /\ Silent(c)' => Silent(c) /\ inbox'[c] = inbox[c],
         ConnOk(p)', TokenOk(p)', KeysOk(p)'
  PROVE  ClientInv'
<1>1. /\ StateTypes /\ StateTypes' /\ PageTypes /\ Homes /\ OwnQueues /\ OwnSeats
      /\ Blanks /\ PagesOk
  BY DEF HubInv, ClientInv
<1>2. PageTypes' /\ page'[p] = me /\ \A q \in Pages : q # p => page'[q] = page[q]
  BY <1>1 DEF PageTypes
<1>3. NamesStay
  BY <1>2 DEF NamesStay
<1>4. SamePeople /\ PeopleStay
  BY SameSession, SameStay
<1>5. SeatsStay
  BY DEF SeatsStay, Settled
<1>6. Homes'
  BY <1>1 DEF Homes, Sessions
<1>7. OwnQueues'
  <2> SUFFICES ASSUME NEW c \in Conns
               PROVE  /\ inbox'[c] \in Seq(OwnRequests(c)')
                      /\ wire'[c] \in Seq(OwnMessages(c)')
                      /\ todo[c] \in Seq(TrueWrites)
    BY DEF OwnQueues, TrueWrites, TrueWrite
  <2>1. OwnRequests(c) \subseteq OwnRequests(c)' /\ OwnMessages(c) \subseteq OwnMessages(c)'
    BY <1>1, <1>3, <1>4, OwnStays
  <2>2. /\ inbox[c] \in Seq(OwnRequests(c)) /\ wire[c] \in Seq(OwnMessages(c))
        /\ todo[c] \in Seq(TrueWrites)
    BY OwnNow
  <2>3. wire[c] # <<>> => Tail(wire[c]) \in Seq(OwnMessages(c))
    BY <2>2, HeadTailProperties
  <2>4. wire'[c] \in Seq(OwnMessages(c))
    BY <2>2, <2>3
  <2>5. inbox[c] \in Seq(OwnRequests(c)') /\ wire'[c] \in Seq(OwnMessages(c)')
    BY <2>1, <2>2, <2>4, SeqMonotonic
  <2> QED
    BY <2>2, <2>5
<1>8. OwnSeats'
  <2> SUFFICES ASSUME NEW c \in Conns PROVE OwnSeat(c)'
    BY DEF OwnSeats
  <2>1. OwnSeat(c)
    BY <1>1 DEF OwnSeats
  <2> QED
    BY <1>1, <1>3, <1>4, <2>1, SeatStays
<1>9. Blanks'
  <2> SUFFICES ASSUME NEW c \in Conns, Silent(c)' PROVE Blank(c)'
    BY DEF Blanks
  <2>1. Blank(c) /\ inbox'[c] = inbox[c]
    BY <1>1 DEF Blanks
  <2> QED
    BY <2>1 DEF Blank, NoSeat, Seat
<1>10. PagesOk'
  <2> SUFFICES ASSUME NEW q \in Pages, q # p PROVE ConnOk(q)' /\ TokenOk(q)' /\ KeysOk(q)'
    BY DEF PagesOk
  <2>1. ConnOk(q) /\ TokenOk(q) /\ KeysOk(q) /\ page'[q] = page[q]
    BY <1>1, <1>2 DEF PagesOk
  <2> QED
    BY <1>1, <1>3, <1>4, <1>5, <2>1, PageStays
<1> QED
  BY <1>2, <1>6, <1>7, <1>8, <1>9, <1>10 DEF ClientInv

\* What a page keeps of its keys and its token.
LEMMA KeysKept ==
  ASSUME UNCHANGED <<pc, seat, session>>, NEW p, KeysOk(p), page'[p].key = page[p].key,
         page'[p].gate = page[p].gate, page'[p].peerKeys = page[p].peerKeys
  PROVE  KeysOk(p)'
  BY DEF KeysOk, Settled, Heard, Sessions

LEMMA ClaimKept ==
  ASSUME UNCHANGED session, NEW p, page'[p].key = page[p].key, NEW t, Claim(p, t)
  PROVE  Claim(p, t)'
  BY DEF Claim, Sessions

LEMMA AnnouncedSame ==
  ASSUME UNCHANGED <<pc, seat, session>>, NEW code
  PROVE  Announced(code)' = Announced(code)
  BY DEF Announced, Sessions

-----------------------------------------------------------------------------
(* Opening a connection. *)
LEMMA DialSide ==
  ASSUME HubInv, HubInv', ClientInv, NEW p \in Pages, NEW c, Dial(p, c),
         NEW me \in Client, page' = [page EXCEPT ![p] = me], me.ws = c, ~me.greeted,
         page[p].key # None => me.key = page[p].key,
         page[p].key = None => me.key = c,
         me.retry = "dialing" \/ (me.key = c /\ me.state \in {"creating", "joining"}),
         me.state \in {"creating", "joining", "up", "failed", "closed"},
         me.state = "joining" => me.sessionCode # None,
         me.gate = page[p].gate, me.peerKeys = page[p].peerKeys,
         TokenOk(p)'
  PROVE  ClientInv'
<1>1. /\ c \in Conns /\ owner[c] = None /\ owner' = [owner EXCEPT ![c] = p]
      /\ UNCHANGED hubVars
  BY DEF Dial, Fresh
<1>2. /\ owner' \in [Conns -> Pages \cup {None}] /\ owner'[c] = p /\ page'[p] = me
      /\ \A d \in Conns : d # c => owner'[d] = owner[d]
      /\ \A q \in Pages : q # p => page'[q] = page[q]
  BY <1>1 DEF ClientInv, PageTypes
<1>3. \A d \in Conns : Silent(d)' => Silent(d)
  BY <1>1, <1>2 DEF Silent
<1>4. page[p] \in Client /\ ConnOk(p) /\ KeysOk(p)
  BY PageNow
<1>5. ConnOk(p)'
  <2>1. me.key # None => owner'[me.key] = p
    BY <1>1, <1>2, <1>4, RelayAssumption DEF ConnOk, Client
  <2> QED
    BY <1>2, <2>1 DEF ConnOk
<1>6. KeysOk(p)'
  <2>1. CASE page[p].key = None
    BY <1>2, <1>4, <2>1 DEF KeysOk
  <2>2. CASE page[p].key # None
    BY <1>1, <1>2, <1>4, <2>2, KeysKept DEF hubVars
  <2> QED
    BY <2>1, <2>2
<1> QED
  BY <1>1, <1>2, <1>3, <1>5, <1>6, PageSide DEF hubVars

LEMMA CreateSide ==
  ASSUME HubInv, HubInv', ClientInv, NEW p \in Pages, Create(p)
  PROVE  ClientInv'
<1>1. PICK c : /\ Dial(p, c) /\ c \in Fresh
               /\ page' = [page EXCEPT ![p].state = "creating", ![p].key = c, ![p].ws = c]
  BY Zenon DEF Create
<1>2. PICK me : me = [page[p] EXCEPT !.state = "creating", !.key = c, !.ws = c]
  OBVIOUS
<1>3. page[p] \in Client /\ ConnOk(p) /\ TokenOk(p) /\ page[p].state = "idle" /\ c \in Conns
  BY <1>1, PageNow DEF Create, Fresh
<1>4. page' = [page EXCEPT ![p] = me]
  BY <1>1, <1>2
<1>5. /\ me \in Client /\ me.state = "creating" /\ me.key = c /\ me.ws = c
      /\ me.greeted = page[p].greeted /\ me.retry = page[p].retry /\ me.token = page[p].token
      /\ me.sessionCode = page[p].sessionCode
      /\ me.gate = page[p].gate /\ me.peerKeys = page[p].peerKeys
  BY <1>2, <1>3 DEF Client
<1>6. page[p].key = None /\ page[p].token = None
  BY <1>3 DEF ConnOk, TokenOk
<1>7. TokenOk(p)'
  <2>1. page'[p] = me
    BY <1>4 DEF ClientInv, PageTypes
  <2>2. UNCHANGED hubVars
    BY <1>1 DEF Dial
  <2>3. me.sessionCode # None => Announced(me.sessionCode)'
    BY <1>3, <1>5, <2>2, AnnouncedSame DEF TokenOk, hubVars
  <2> QED
    BY <1>3, <1>5, <1>6, <2>1, <2>3 DEF TokenOk
<1>8. ~me.greeted
  BY <1>3, <1>5 DEF ConnOk
<1> QED
  BY <1>1, <1>4, <1>5, <1>6, <1>7, <1>8, DialSide

LEMMA JoinSide ==
  ASSUME HubInv, HubInv', ClientInv, NEW p \in Pages, NEW code \in ToldCodes, Join(p, code)
  PROVE  ClientInv'
<1>1. PICK c : /\ Dial(p, c) /\ c \in Fresh
               /\ page' = [page EXCEPT ![p].state = "joining", ![p].key = c, ![p].ws = c,
                                       ![p].sessionCode = code]
  BY Zenon DEF Join
<1>2. PICK me : me = [page[p] EXCEPT !.state = "joining", !.key = c, !.ws = c,
                                     !.sessionCode = code]
  OBVIOUS
<1>3. page[p] \in Client /\ ConnOk(p) /\ TokenOk(p) /\ page[p].state = "idle" /\ c \in Conns
  BY <1>1, PageNow DEF Join, Fresh
<1>4. code # None /\ Announced(code) /\ code \in Codes
  <2>1. PICK q \in Pages : code = page[q].sessionCode /\ code # None
    BY DEF ToldCodes
  <2>2. TokenOk(q)
    BY PageNow
  <2>3. Announced(code)
    BY <2>1, <2>2 DEF TokenOk
  <2> QED
    BY <2>1, <2>3 DEF Announced, HubInv, StateTypes
<1>5. page' = [page EXCEPT ![p] = me]
  BY <1>1, <1>2
<1>6. /\ me \in Client /\ me.state = "joining" /\ me.key = c /\ me.ws = c
      /\ me.greeted = page[p].greeted /\ me.retry = page[p].retry /\ me.token = page[p].token
      /\ me.sessionCode = code
      /\ me.gate = page[p].gate /\ me.peerKeys = page[p].peerKeys
  BY <1>2, <1>3, <1>4 DEF Client
<1>7. page[p].key = None /\ page[p].token = None /\ ~me.greeted
  BY <1>3, <1>6 DEF ConnOk, TokenOk
<1>8. TokenOk(p)'
  <2>1. page'[p] = me
    BY <1>5 DEF ClientInv, PageTypes
  <2>2. UNCHANGED hubVars
    BY <1>1 DEF Dial
  <2>3. Announced(code)'
    BY <1>4, <2>2, AnnouncedSame DEF hubVars
  <2> QED
    BY <1>3, <1>6, <1>7, <2>1, <2>3 DEF TokenOk
<1> QED
  BY <1>1, <1>4, <1>5, <1>6, <1>7, <1>8, DialSide

LEMMA RedialSide ==
  ASSUME HubInv, HubInv', ClientInv, NEW p \in Pages, Redial(p)
  PROVE  ClientInv'
<1>1. PICK c : /\ Dial(p, c) /\ c \in Fresh
               /\ page' = [page EXCEPT ![p].ws = c, ![p].retry = "dialing",
                                       ![p].greeted = FALSE]
  BY Zenon DEF Redial
<1>2. PICK me : me = [page[p] EXCEPT !.ws = c, !.retry = "dialing", !.greeted = FALSE]
  OBVIOUS
<1>3. page[p] \in Client /\ ConnOk(p) /\ TokenOk(p) /\ page[p].retry = "waiting" /\ c \in Conns
  BY <1>1, PageNow DEF Redial, Fresh
<1>4. page' = [page EXCEPT ![p] = me]
  BY <1>1, <1>2
<1>5. /\ me \in Client /\ me.ws = c /\ me.retry = "dialing" /\ ~me.greeted
      /\ me.state = page[p].state /\ me.key = page[p].key /\ me.token = page[p].token
      /\ me.sessionCode = page[p].sessionCode
      /\ me.gate = page[p].gate /\ me.peerKeys = page[p].peerKeys
  BY <1>2, <1>3 DEF Client
<1>6. me.token # None /\ me.token \in Token /\ Claim(p, me.token)
  BY <1>3, <1>5 DEF TokenOk, Client
<1>7. page'[p] = me /\ UNCHANGED hubVars
  BY <1>1, <1>4 DEF ClientInv, PageTypes, Dial
<1>8. TokenOk(p)'
  <2>1. Claim(p, me.token)'
    BY <1>5, <1>6, <1>7, ClaimKept DEF hubVars
  <2>2. me.sessionCode # None => Announced(me.sessionCode)'
    BY <1>3, <1>5, <1>7, AnnouncedSame DEF TokenOk, hubVars
  <2> QED
    BY <1>3, <1>5, <1>6, <1>7, <2>1, <2>2 DEF TokenOk
<1>9. page[p].key # None
  <2>1. /\ me.token.id \in Nat /\ me.token.code \in Sessions
        /\ me.token.id < Len(session[me.token.code].party)
        /\ page[p].key = session[me.token.code].party[me.token.id + 1].key
    BY <1>6 DEF Claim, Token
  <2>2. page[p].key \in Conns
    BY <2>1, PartyIndex DEF HubInv
  <2> QED
    BY <2>2, RelayAssumption
<1>10. me.state \in {"creating", "joining", "up", "failed", "closed"} /\ ~(me.state = "joining")
  BY <1>3, <1>5, <1>6 DEF TokenOk, Client
<1>11. /\ page[p].key # None => me.key = page[p].key
       /\ page[p].key = None => me.key = c
       /\ me.retry = "dialing" \/ (me.key = c /\ me.state \in {"creating", "joining"})
       /\ me.state = "joining" => me.sessionCode # None
  BY <1>5, <1>9, <1>10
<1> QED
  BY <1>1, <1>4, <1>5, <1>8, <1>10, <1>11, DialSide

-----------------------------------------------------------------------------
(* Requests. *)
LEMMA AskSide ==
  ASSUME HubInv, HubInv', ClientInv, NEW p \in Pages, NEW m,
         page[p].ws # None, link[page[p].ws] = "open",
         inbox' = [inbox EXCEPT ![page[p].ws] = Append(@, m)],
         UNCHANGED <<wire, pc, todo, seat, session, owner>>,
         NEW me \in Client, page' = [page EXCEPT ![p] = me], me.greeted,
         me.state = page[p].state, me.partyId = page[p].partyId,
         me.sessionCode = page[p].sessionCode, me.token = page[p].token,
         me.key = page[p].key, me.ws = page[p].ws, me.gate = page[p].gate,
         me.peerKeys = page[p].peerKeys, me.retry \in {"no", page[p].retry},
         me.state # "idle",
         m \in OwnRequests(page[p].ws)
  PROVE  ClientInv'
<1>1. PICK c \in Conns : c = page[p].ws /\ owner[c] = p
  BY PageNow
<1>2. /\ page[p] \in Client /\ ConnOk(p) /\ TokenOk(p) /\ KeysOk(p)
  BY PageNow
<1>3. /\ page'[p] = me /\ \A q \in Pages : q # p => page'[q] = page[q]
      /\ owner' \in [Conns -> Pages \cup {None}]
  BY DEF ClientInv, PageTypes
<1>4. /\ StateTypes /\ StateTypes' /\ PageTypes /\ NamesStay /\ PeopleStay
  BY <1>3, SameSession, SameStay DEF HubInv, ClientInv, NamesStay
<1>5. OwnRequests(c) \subseteq OwnRequests(c)'
  BY <1>4, OwnStays
<1>6. inbox'[c] \in Seq(OwnRequests(c)')
  <2>1. inbox[c] \in Seq(OwnRequests(c)) /\ m \in OwnRequests(c)
    BY <1>1, OwnNow
  <2>2. Append(inbox[c], m) \in Seq(OwnRequests(c))
    BY <2>1, AppendProperties
  <2>3. Append(inbox[c], m) \in Seq(OwnRequests(c)')
    BY <1>5, <2>2, SeqMonotonic
  <2> QED
    BY <1>1, <2>3 DEF HubInv, StateTypes
<1>7. \A d \in Conns : d # c => inbox'[d] = inbox[d]
  BY <1>1 DEF HubInv, StateTypes
<1>8. ASSUME NEW d \in Conns, Silent(d)' PROVE Silent(d) /\ d # c
  <2>1. CASE owner'[d] = None
    BY <1>1, <2>1, ClientAssumption DEF Silent
  <2>2. CASE owner'[d] # None
    <3>1. PICK q \in Pages : page'[q].ws = d /\ ~page'[q].greeted
      BY <1>8, <2>2 DEF Silent
    <3>2. q # p /\ page[q].ws = d /\ ~page[q].greeted
      BY <1>3, <3>1
    <3>3. owner[d] = q
      BY <3>2, PageNow, RelayAssumption
    <3> QED
      BY <1>1, <3>2, <3>3 DEF Silent
  <2> QED
    BY <2>1, <2>2
<1>9. ConnOk(p)'
  BY <1>2, <1>3 DEF ConnOk
<1>10. TokenOk(p)'
  <2>1. me.token # None => Claim(p, me.token)'
    BY <1>2, <1>3, ClaimKept DEF TokenOk
  <2>2. me.sessionCode # None => Announced(me.sessionCode)'
    BY <1>2, <1>3, AnnouncedSame DEF TokenOk
  <2>3. me.retry \in {"waiting", "dialing"} => me.token # None
    BY <1>2 DEF TokenOk
  <2> QED
    BY <1>2, <1>3, <2>1, <2>2, <2>3 DEF TokenOk
<1>11. KeysOk(p)'
  BY <1>2, <1>3, KeysKept
<1>12. ASSUME NEW d \in Conns
       PROVE  /\ inbox'[d] = inbox[d] \/ inbox'[d] \in Seq(OwnRequests(d)')
              /\ wire'[d] = wire[d]
              /\ Silent(d)' => Silent(d) /\ inbox'[d] = inbox[d]
  BY <1>6, <1>7, <1>8
<1> QED
  BY ZenonT(40), <1>3, <1>9, <1>10, <1>11, <1>12, PageSide

\* The first request of a page: what it asks for is its own.
LEMMA OpenedAsks ==
  ASSUME HubInv, ClientInv, NEW p \in Pages, NEW size \in Nat, Opened(p, size)
  PROVE  \E m \in OkRequests \cap OwnRequests(page[p].ws) :
           inbox' = [inbox EXCEPT ![page[p].ws] = Append(@, m)]
<1>1. PICK me \in Client : me = page[p]
  BY PageNow
<1>2. PICK m : m = CASE me.retry = "dialing" -> [type |-> "reconnect", token |-> me.token]
                     [] me.state = "creating" -> [type |-> "create", parties |-> size]
                     [] OTHER -> [type |-> "join", session |-> me.sessionCode]
  OBVIOUS
<1>3. me.ws # None /\ ~me.greeted /\ inbox' = [inbox EXCEPT ![me.ws] = Append(@, m)]
  BY <1>1, <1>2 DEF Opened, Request
<1>4. /\ ConnOk(p) /\ TokenOk(p) /\ owner[me.ws] = p
  BY <1>1, <1>3, PageNow
<1>5. CASE me.retry = "dialing"
  <2>0. me.state # "creating"
    BY <1>1, <1>4, <1>5 DEF TokenOk
  <2>1. m = [type |-> "reconnect", token |-> me.token]
    BY <1>2, <1>5, <2>0
  <2>2. me.token \in Token /\ Claim(p, me.token)
    BY <1>1, <1>4, <1>5 DEF TokenOk, Client
  <2>3. m \in Asked /\ m.type = "reconnect" /\ m.token = me.token
    BY <2>1, <2>2 DEF Asked
  <2> QED
    BY <1>1, <1>3, <1>4, <2>2, <2>3 DEF OkRequests, OwnRequests
<1>6. CASE me.retry # "dialing"
  <2>1. me.ws = me.key /\ me.state \in {"creating", "joining"}
    BY <1>1, <1>3, <1>4, <1>6 DEF ConnOk
  <2>2. OwnKey(me.ws)
    BY <1>1, <1>4, <2>1 DEF OwnKey
  <2>3. CASE me.state = "creating"
    <3>1. m = [type |-> "create", parties |-> size]
      BY <1>2, <1>6, <2>3
    <3>2. m \in Asked /\ m.type = "create"
      BY <3>1 DEF Asked
    <3> QED
      BY <1>1, <1>3, <2>2, <3>2 DEF OkRequests, OwnRequests
  <2>4. CASE me.state = "joining"
    <3>1. m = [type |-> "join", session |-> me.sessionCode]
      BY <1>2, <1>6, <2>4
    <3>2. Announced(me.sessionCode)
      BY <1>1, <1>4, <2>4 DEF ConnOk, TokenOk
    <3>3. me.sessionCode \in Codes
      BY <3>2 DEF Announced, HubInv, StateTypes
    <3>4. m \in Asked /\ m.type = "join" /\ m.session = me.sessionCode
      BY <3>1, <3>3 DEF Asked
    <3> QED
      BY <1>1, <1>3, <2>2, <3>2, <3>4 DEF OkRequests, OwnRequests
  <2> QED
    BY <2>1, <2>3, <2>4
<1> QED
  BY <1>5, <1>6

LEMMA OpenedSide ==
  ASSUME HubInv, ClientInv, NEW p \in Pages, NEW size \in Nat, Opened(p, size)
  PROVE  HubInv' /\ ClientInv'
<1>1. PICK m \in OkRequests \cap OwnRequests(page[p].ws) :
        inbox' = [inbox EXCEPT ![page[p].ws] = Append(@, m)]
  BY OpenedAsks
<1>2. /\ page[p].ws # None /\ ~page[p].greeted /\ link[page[p].ws] = "open"
      /\ page' = [page EXCEPT ![p].greeted = TRUE, ![p].retry = "no", ![p].attempts = 0]
      /\ UNCHANGED <<link, wire, pc, todo, seat, session, listed, owner>>
  BY DEF Opened, Request
<1>3. page[p].ws \in Conns /\ page[p] \in Client /\ ConnOk(p) /\ TokenOk(p)
  BY <1>2, PageNow
<1>4. HubInv'
  BY <1>1, <1>2, <1>3, RequestStep
<1>5. PICK me : me = [page[p] EXCEPT !.greeted = TRUE, !.retry = "no", !.attempts = 0]
  OBVIOUS
<1>6. page' = [page EXCEPT ![p] = me]
  BY <1>2, <1>5
<1>7. /\ me \in Client /\ me.greeted = TRUE /\ me.retry = "no"
      /\ me.state = page[p].state /\ me.partyId = page[p].partyId
      /\ me.sessionCode = page[p].sessionCode /\ me.token = page[p].token
      /\ me.key = page[p].key /\ me.ws = page[p].ws /\ me.gate = page[p].gate
      /\ me.peerKeys = page[p].peerKeys
  <2>1. 0 \in 0 .. MaxAttempts
    BY ClientAssumption
  <2> QED
    BY <1>3, <1>5, <2>1 DEF Client
<1>8. page[p].state # "idle"
  BY <1>2, <1>3 DEF ConnOk, TokenOk
<1>9. ClientInv'
  BY <1>1, <1>2, <1>4, <1>6, <1>7, <1>8, AskSide
<1> QED
  BY <1>4, <1>9

-----------------------------------------------------------------------------
(* What a page does without a request. *)
LEMMA OwnSide ==
  ASSUME HubInv, HubInv', ClientInv, NEW p \in Pages,
         UNCHANGED <<inbox, pc, todo, seat, session, owner>>,
         \A c \in Conns : \/ wire'[c] = wire[c]
                          \/ wire[c] # <<>> /\ wire'[c] = Tail(wire[c]),
         NEW me \in Client, page' = [page EXCEPT ![p] = me],
         me.ws \in {page[p].ws, None}, me.greeted = page[p].greeted, me.key = page[p].key,
         me.state = "idle" => page[p].state = "idle",
         me.state = "joining" => me.sessionCode # None,
         me.ws # None /\ ~me.greeted /\ me.retry # "dialing" =>
           me.ws = me.key /\ me.state \in {"creating", "joining"},
         TokenOk(p)', KeysOk(p)'
  PROVE  ClientInv'
<1>1. /\ page'[p] = me /\ \A q \in Pages : q # p => page'[q] = page[q]
      /\ owner' \in [Conns -> Pages \cup {None}]
  BY DEF ClientInv, PageTypes
<1>2. ConnOk(p)
  BY PageNow
<1>3. ASSUME NEW c \in Conns, Silent(c)' PROVE Silent(c)
  <2>1. CASE owner'[c] = None
    BY <2>1 DEF Silent
  <2>2. CASE owner'[c] # None
    <3>1. PICK q \in Pages : page'[q].ws = c /\ ~page'[q].greeted
      BY <1>3, <2>2 DEF Silent
    <3>2. page[q].ws = c /\ ~page[q].greeted
      BY <1>1, <3>1, RelayAssumption
    <3> QED
      BY <3>2 DEF Silent
  <2> QED
    BY <2>1, <2>2
<1>4. ConnOk(p)'
  BY <1>1, <1>2 DEF ConnOk
<1> QED
  BY <1>1, <1>3, <1>4, PageSide

LEMMA StillSide ==
  ASSUME HubInv, HubInv', ClientInv, NEW p \in Pages,
         UNCHANGED <<inbox, pc, todo, seat, session, owner, page>>,
         \A c \in Conns : \/ wire'[c] = wire[c]
                          \/ wire[c] # <<>> /\ wire'[c] = Tail(wire[c])
  PROVE  ClientInv'
<1>1. PICK me : me = page[p]
  OBVIOUS
<1>2. me \in Client /\ ConnOk(p) /\ TokenOk(p) /\ KeysOk(p)
  BY <1>1, PageNow
<1>3. page' = [page EXCEPT ![p] = me]
  BY <1>1 DEF ClientInv, PageTypes
<1>4. KeysOk(p)'
  BY <1>2, KeysKept
<1>5. TokenOk(p)'
  BY <1>2, ClaimKept, AnnouncedSame DEF TokenOk
<1> QED
  BY <1>1, <1>2, <1>3, <1>4, <1>5, OwnSide DEF ConnOk

LEMMA DecryptSide ==
  ASSUME HubInv, HubInv', ClientInv, NEW p \in Pages, NEW m, Decrypt(p, m)
  PROVE  ClientInv'
  BY StillSide DEF Decrypt, hubVars

LEMMA DeriveKeysSide ==
  ASSUME HubInv, HubInv', ClientInv, NEW p \in Pages, DeriveKeys(p)
  PROVE  ClientInv'
<1>1. PICK old \in Client : old = page[p]
  BY PageNow
<1>2. PICK D : D = {i \in 0 .. Len(old.gate) - 1 : i # old.partyId}
  OBVIOUS
<1>3. PICK keys : keys = [i \in D |-> {old.key, old.gate[i + 1]}]
  OBVIOUS
<1>4. PICK me : me = [old EXCEPT !.isReady = TRUE, !.peerKeys = keys]
  OBVIOUS
<1>5. /\ old.gate # <<>> /\ UNCHANGED <<hubVars, owner>>
      /\ page' = [page EXCEPT ![p] = me]
  BY <1>1, <1>2, <1>3, <1>4 DEF DeriveKeys
<1>6. ConnOk(p) /\ TokenOk(p) /\ KeysOk(p)
  BY PageNow
<1>7. PICK code : code = seat[old.key].code
  OBVIOUS
<1>8. old.key # None /\ Settled(old.key) /\ Heard(old.gate, code)
  BY <1>1, <1>5, <1>6, <1>7 DEF KeysOk
<1>9. old.gate \in Seq(Conns) /\ Len(old.gate) \in Nat /\ old.key \in Conns
  BY <1>8, LenProperties DEF Client
<1>10. ASSUME NEW i \in D
       PROVE  /\ i \in Nat /\ i + 1 \in 1 .. Len(old.gate)
              /\ i < Len(session[code].party) /\ old.gate[i + 1] \in Conns
              /\ keys[i] = {old.key, session[code].party[i + 1].key}
  <2>1. i \in Nat /\ i + 1 \in 1 .. Len(old.gate)
    BY <1>2, <1>9
  <2>2. i + 1 <= Len(session[code].party) /\ old.gate[i + 1] = session[code].party[i + 1].key
    BY <1>8, <2>1 DEF Heard
  <2>3. Len(session[code].party) \in Nat
    BY <1>8, KeysAll DEF Heard, HubInv, StateTypes
  <2>4. i < Len(session[code].party)
    BY <2>1, <2>2, <2>3
  <2>5. old.gate[i + 1] \in Conns
    BY <1>9, <2>1, ElementOfSeq
  <2> QED
    BY <1>3, <2>1, <2>2, <2>4, <2>5
<1>11. keys \in KeyRings /\ DOMAIN keys = D
  <2>1. D \in SUBSET Nat
    BY <1>10
  <2>2. keys \in [D -> SUBSET Conns]
    BY <1>3, <1>9, <1>10
  <2> QED
    BY <1>3, <2>1, <2>2 DEF KeyRings
<1>12. /\ me \in Client /\ me.peerKeys = keys /\ me.gate = old.gate /\ me.key = old.key
       /\ me.ws = old.ws /\ me.greeted = old.greeted /\ me.state = old.state
       /\ me.retry = old.retry /\ me.sessionCode = old.sessionCode /\ me.token = old.token
  BY <1>4, <1>11 DEF Client
<1>13. page'[p] = me
  BY <1>5 DEF ClientInv, PageTypes
<1>14. KeysOk(p)'
  <2>1. Settled(old.key)' /\ seat'[old.key].code = code /\ Heard(old.gate, code)'
    BY <1>5, <1>7, <1>8 DEF Settled, Heard, Sessions, hubVars
  <2>2. code \in Sessions' /\ session' = session
    BY <1>5, <1>8 DEF Heard, Sessions, hubVars
  <2>3. ASSUME NEW i \in DOMAIN me.peerKeys
        PROVE  /\ i \in Nat /\ i < Len(session'[code].party)
               /\ me.peerKeys[i] = {me.key, session'[code].party[i + 1].key}
    BY <1>10, <1>11, <1>12, <2>2
  <2> QED
    BY <1>8, <1>12, <1>13, <2>1, <2>2, <2>3 DEF KeysOk
<1>15. TokenOk(p)'
  <2>1. me.token # None => Claim(p, me.token)'
    BY <1>1, <1>5, <1>6, <1>12, <1>13, ClaimKept DEF TokenOk, hubVars
  <2>2. me.sessionCode # None => Announced(me.sessionCode)'
    BY <1>1, <1>5, <1>6, <1>12, AnnouncedSame DEF TokenOk, hubVars
  <2> QED
    BY <1>1, <1>6, <1>12, <1>13, <2>1, <2>2 DEF TokenOk
<1>16. /\ me.state = "joining" => me.sessionCode # None
       /\ me.ws # None /\ ~me.greeted /\ me.retry # "dialing" =>
            me.ws = me.key /\ me.state \in {"creating", "joining"}
  BY <1>1, <1>6, <1>12 DEF ConnOk
<1> QED
  BY <1>1, <1>5, <1>12, <1>14, <1>15, <1>16, OwnSide DEF hubVars

LEMMA CloseEventSide ==
  ASSUME HubInv, HubInv', ClientInv, NEW p \in Pages, CloseEvent(p)
  PROVE  ClientInv'
<1>1. PICK old \in Client : old = page[p]
  BY PageNow
<1>2. PICK me : me = IF old.token = None \/ old.attempts >= MaxAttempts
                     THEN [old EXCEPT !.ws = None, !.retry = "gaveUp"]
                     ELSE [old EXCEPT !.ws = None, !.retry = "waiting", !.attempts = @ + 1]
  OBVIOUS
<1>3. UNCHANGED <<hubVars, owner>> /\ page' = [page EXCEPT ![p] = me]
  BY <1>1, <1>2 DEF CloseEvent
<1>4. ConnOk(p) /\ TokenOk(p) /\ KeysOk(p)
  BY PageNow
<1>5. old.attempts \in 0 .. MaxAttempts /\ ~(old.attempts >= MaxAttempts) =>
        old.attempts + 1 \in 0 .. MaxAttempts
  BY ClientAssumption
<1>6. /\ me \in Client /\ me.ws = None /\ me.peerKeys = old.peerKeys /\ me.gate = old.gate
      /\ me.key = old.key /\ me.greeted = old.greeted /\ me.state = old.state
      /\ me.sessionCode = old.sessionCode /\ me.token = old.token
      /\ me.retry = "gaveUp" \/ (me.retry = "waiting" /\ me.token # None)
  <2>1. old.attempts \in 0 .. MaxAttempts
    BY DEF Client
  <2>2. CASE old.token = None \/ old.attempts >= MaxAttempts
    BY ZenonT(40), <1>2, <2>2 DEF Client
  <2>3. CASE ~(old.token = None \/ old.attempts >= MaxAttempts)
    <3>1. PICK n : n = old.attempts + 1
      OBVIOUS
    <3>2. n \in 0 .. MaxAttempts
      BY <1>5, <2>1, <2>3, <3>1
    <3>3. me = [old EXCEPT !.ws = None, !.retry = "waiting", !.attempts = n]
      BY <1>2, <2>3, <3>1
    <3> QED
      BY <2>3, <3>2, <3>3 DEF Client
  <2> QED
    BY <2>2, <2>3
<1>7. page'[p] = me
  BY <1>3 DEF ClientInv, PageTypes
<1>8. KeysOk(p)'
  BY <1>1, <1>3, <1>4, <1>6, <1>7, KeysKept DEF hubVars
<1>9. TokenOk(p)'
  <2>1. me.token # None => Claim(p, me.token)'
    BY <1>1, <1>3, <1>4, <1>6, <1>7, ClaimKept DEF TokenOk, hubVars
  <2>2. me.sessionCode # None => Announced(me.sessionCode)'
    BY <1>1, <1>3, <1>4, <1>6, AnnouncedSame DEF TokenOk, hubVars
  <2> QED
    BY <1>1, <1>4, <1>6, <1>7, <2>1, <2>2 DEF TokenOk
<1>10. me.state = "joining" => me.sessionCode # None
  BY <1>1, <1>4, <1>6 DEF ConnOk
<1> QED
  BY <1>1, <1>3, <1>6, <1>8, <1>9, <1>10, OwnSide DEF hubVars

LEMMA SendToSide ==
  ASSUME HubInv, ClientInv, NEW p \in Pages, NEW to \in Nat, NEW text \in Pages,
         SendTo(p, to, text)
  PROVE  HubInv' /\ ClientInv'
<1>1. PICK me \in Client : me = page[p]
  BY PageNow
<1>2. ConnOk(p) /\ TokenOk(p) /\ KeysOk(p)
  BY PageNow
<1>3. /\ to \in DOMAIN me.peerKeys
      /\ UNCHANGED <<link, wire, pc, todo, seat, session, listed, owner, page>>
  BY <1>1 DEF SendTo
<1>4. CASE me.ws # None /\ me.greeted /\ link[me.ws] = "open"
  <2>1. PICK keys, m : /\ keys = me.peerKeys[to]
                       /\ m = [type |-> "relay", to |-> to,
                               payload |-> [under |-> keys, text |-> text]]
    OBVIOUS
  <2>2. inbox' = [inbox EXCEPT ![me.ws] = Append(@, m)]
    BY <1>1, <1>4, <2>1 DEF SendTo, Request
  <2>3. keys \in SUBSET Conns
    <3>1. PICK D \in SUBSET Nat : me.peerKeys \in [D -> SUBSET Conns]
      BY DEF Client, KeyRings
    <3> QED
      BY <1>3, <2>1, <3>1
  <2>4. m \in Asked /\ m.type = "relay"
    <3>1. [under |-> keys, text |-> text] \in Payload
      BY <2>3 DEF Payload
    <3> QED
      BY <2>1, <3>1 DEF Asked
  <2>5. m \in OkRequests /\ m \in OwnRequests(me.ws)
    BY <2>4 DEF OkRequests, OwnRequests
  <2>6. me.ws \in Conns /\ me.state # "idle"
    BY <1>1, <1>2, <1>4, PageNow DEF ConnOk
  <2>7. HubInv'
    BY <1>3, <2>2, <2>5, <2>6, RequestStep
  <2>8. page' = [page EXCEPT ![p] = me]
    BY <1>1, <1>3 DEF ClientInv, PageTypes
  <2>9. ClientInv'
    BY <1>1, <1>3, <1>4, <2>2, <2>5, <2>6, <2>7, <2>8, AskSide
  <2> QED
    BY <2>7, <2>9
<1>5. CASE ~(me.ws # None /\ me.greeted /\ link[me.ws] = "open")
  <2>1. UNCHANGED inbox
    BY <1>1, <1>5 DEF SendTo
  <2>2. HubInv'
    BY <1>3, <2>1, QueuesNow, QuietStep DEF HubInv, StateTypes
  <2>3. ClientInv'
    BY <1>3, <2>1, <2>2, StillSide
  <2> QED
    BY <2>2, <2>3
<1> QED
  BY <1>4, <1>5

-----------------------------------------------------------------------------
(* Closing. *)
LEMMA CloseSide ==
  ASSUME HubInv, ClientInv, NEW p \in Pages, Close(p)
  PROVE  HubInv' /\ ClientInv'
<1>1. PICK old \in Client : old = page[p]
  BY PageNow
<1>2. PICK me : me = [old EXCEPT !.state = "closed", !.ws = None, !.retry = "no",
                                 !.token = None, !.peerKeys = NoKeys]
  OBVIOUS
<1>3. /\ page' = [page EXCEPT ![p] = me]
      /\ UNCHANGED <<inbox, wire, pc, todo, seat, session, listed, owner>>
  BY <1>1, <1>2 DEF Close
<1>4. ConnOk(p) /\ TokenOk(p) /\ KeysOk(p)
  BY PageNow
<1>5. HubInv'
  <2>1. /\ link' \in [Conns -> {"none", "upgrading", "open", "gone", "closed"}]
        /\ \A c \in Conns : link[c] \in {"open", "gone"} => link'[c] \in {"open", "gone"}
        /\ \A c \in Conns : link[c] \in {"gone", "closed"} => link'[c] \in {"gone", "closed"}
    <3>1. CASE old.ws # None /\ link[old.ws] = "open"
      BY <1>1, <3>1 DEF Close, HubInv, StateTypes
    <3>2. CASE ~(old.ws # None /\ link[old.ws] = "open")
      BY <1>1, <3>2 DEF Close, HubInv, StateTypes
    <3> QED
      BY <3>1, <3>2
  <2> QED
    BY <1>3, <2>1, QueuesNow, QuietStep DEF HubInv, StateTypes
<1>6. NoKeys \in KeyRings /\ DOMAIN NoKeys = {}
  <2>1. NoKeys \in [{} -> SUBSET Conns] /\ DOMAIN NoKeys = {}
    BY DEF NoKeys
  <2> QED
    BY <2>1 DEF KeyRings
<1>7. /\ me \in Client /\ me.ws = None /\ me.greeted = old.greeted /\ me.key = old.key
      /\ me.state = "closed" /\ me.token = None /\ me.retry = "no"
      /\ me.sessionCode = old.sessionCode /\ me.gate = old.gate /\ me.peerKeys = NoKeys
  BY <1>2, <1>6 DEF Client
<1>8. page'[p] = me
  BY <1>3 DEF ClientInv, PageTypes
<1>9. KeysOk(p)'
  <2>1. PICK code : code = seat[me.key].code
    OBVIOUS
  <2>2. me.gate # <<>> => me.key # None /\ Settled(me.key) /\ Heard(me.gate, code)
    BY <1>1, <1>4, <1>7, <2>1 DEF KeysOk
  <2>3. me.gate # <<>> => me.key # None /\ Settled(me.key)' /\ Heard(me.gate, code)'
    BY <1>3, <2>2 DEF Settled, Heard, Sessions
  <2>4. seat'[me.key].code = code
    BY <1>3, <2>1
  <2> QED
    BY <1>6, <1>7, <1>8, <2>3, <2>4 DEF KeysOk
<1>10. TokenOk(p)'
  <2>1. me.sessionCode # None => Announced(me.sessionCode)'
    BY <1>1, <1>3, <1>4, <1>7, AnnouncedSame DEF TokenOk
  <2> QED
    BY <1>7, <1>8, <2>1 DEF TokenOk
<1>11. ClientInv'
  BY <1>1, <1>3, <1>5, <1>7, <1>9, <1>10, OwnSide
<1> QED
  BY <1>5, <1>11

-----------------------------------------------------------------------------
(* Messages. *)

\* A page is told "ready" about the session it has its seat in.
LEMMA ReadyHeard ==
  ASSUME HubInv, ClientInv, NEW p \in Pages, NEW c \in Conns, owner[c] = p,
         NEW keys, Everybody(keys, seat[c].code), pc[c] \in {"read", "leave"}
  PROVE  /\ page[p].key # None /\ Settled(page[p].key)
         /\ Heard(keys, seat[page[p].key].code)
<1>1. PICK code, id : code = seat[c].code /\ id = seat[c].id
  OBVIOUS
<1>2. StateTypes /\ Homes /\ OwnSeat(c)
  BY DEF HubInv, ClientInv, OwnSeats
<1>3. code \in Sessions /\ keys = Keys(session[code]) /\ id \in Nat
  BY <1>1, <1>2 DEF Everybody, StateTypes, Token
<1>4. Settled(c)
  BY <1>1, <1>2, <1>3, NoneIsNoSession DEF Settled
<1>5. /\ id < Len(session[code].party)
      /\ session[code].party[id + 1].key = page[p].key
  BY <1>1, <1>2, <1>4 DEF OwnSeat, Claim
<1>6. id + 1 \in 1 .. Len(session[code].party) /\ page[p].key \in Conns
  BY <1>2, <1>3, <1>5, PartyIndex
<1>7. seat[page[p].key] = Seat(code, id + 1 - 1) /\ pc[page[p].key] \in {"read", "leave"}
  BY <1>2, <1>3, <1>5, <1>6 DEF Homes
<1>8. seat[page[p].key].code = code
  BY <1>7 DEF Seat
<1>9. Settled(page[p].key)
  BY <1>2, <1>3, <1>6, <1>7, <1>8, NoneIsNoSession DEF Settled
<1>10. Heard(keys, code)
  <2>1. session[code] \in Session
    BY <1>2, <1>3 DEF StateTypes
  <2>2. Len(keys) = Len(session[code].party) /\ Len(keys) \in Nat
    BY <1>3, <2>1, KeysAll
  <2>3. \A i \in 1 .. Len(keys) :
          i <= Len(session[code].party) /\ keys[i] = session[code].party[i].key
    BY <1>3, <2>2 DEF Keys
  <2> QED
    BY <1>3, <2>3 DEF Heard
<1> QED
  BY <1>6, <1>8, <1>9, <1>10, RelayAssumption

\* Reading a message, whatever it says.
LEMMA ReadsOwn ==
  ASSUME HubInv, ClientInv, NEW p \in Pages, Receive(p)
  PROVE  /\ HubInv'
         /\ UNCHANGED <<inbox, pc, todo, seat, session, owner>>
         /\ \A c \in Conns : \/ wire'[c] = wire[c]
                             \/ wire[c] # <<>> /\ wire'[c] = Tail(wire[c])
         /\ page[p].ws \in Conns /\ owner[page[p].ws] = p /\ page[p].greeted
         /\ Head(wire[page[p].ws]) \in OwnMessages(page[p].ws) \cap OkMessages(page[p].ws)
<1>1. PICK c \in Conns : c = page[p].ws /\ owner[c] = p
  BY PageNow DEF Receive
<1>2. /\ wire[c] # <<>> /\ wire' = [wire EXCEPT ![c] = Tail(@)]
      /\ UNCHANGED <<link, inbox, pc, todo, seat, session, listed, owner>>
  BY <1>1 DEF Receive
<1>3. page[p].greeted
  <2>1. ASSUME ~page[p].greeted PROVE FALSE
    <3>1. Silent(c)
      BY <1>1, <2>1 DEF Silent
    <3> QED
      BY <1>2, <3>1 DEF ClientInv, Blanks, Blank
  <2> QED
    BY <2>1
<1>4. /\ Head(wire[c]) \in OwnMessages(c) /\ Head(wire[c]) \in OkMessages(c)
      /\ Tail(wire[c]) \in Seq(OkMessages(c))
  BY <1>2, OwnNow, QueuesNow, HeadTailProperties
<1>5. DOMAIN wire = Conns /\ DOMAIN wire' = Conns
  BY <1>2 DEF HubInv, StateTypes
<1>6. HubInv'
  <2>1. \A d \in Conns : wire'[d] \in Seq(OkMessages(d))
    BY <1>2, <1>4, <1>5, QueuesNow
  <2> QED
    BY <1>2, <1>5, <2>1, QueuesNow, QuietStep DEF HubInv, StateTypes
<1> QED
  BY <1>1, <1>2, <1>3, <1>4, <1>5, <1>6

LEMMA CreatedSide ==
  ASSUME HubInv, ClientInv, NEW p \in Pages, Receive(p),
         NEW m, m = Head(wire[page[p].ws]), m.type = "created", page[p].state = "creating"
  PROVE  ClientInv'
<1>1. PICK old \in Client : old = page[p]
  BY PageNow
<1>2. PICK me : me = [old EXCEPT !.state = "up", !.partyId = m.partyId,
                                 !.sessionCode = m.session, !.token = Seat(m.session, 0)]
  OBVIOUS
<1>3. page' = [page EXCEPT ![p] = me]
  BY ZenonT(40), <1>1, <1>2 DEF Receive, Created
<1>4. /\ HubInv' /\ UNCHANGED <<inbox, pc, todo, seat, session, owner>>
      /\ owner[old.ws] = p /\ old.greeted
      /\ m \in OwnMessages(old.ws) /\ m \in OkMessages(old.ws)
  BY <1>1, ReadsOwn
<1>5. /\ m.session \in Codes /\ m.partyId \in Nat /\ Announced(m.session)
      /\ Claim(p, Seat(m.session, 0)) /\ Seat(m.session, 0) \in Token
  <2>1. m \in Message
    BY <1>4 DEF OkMessages
  <2>2. m.session \in Codes /\ m.partyId \in Nat
    BY <2>1 DEF Message
  <2> QED
    BY <1>4, <2>2 DEF OwnMessages, OkMessages, Seat, Token
<1>6. ConnOk(p) /\ TokenOk(p) /\ KeysOk(p)
  BY PageNow
<1>7. /\ me \in Client /\ me.state = "up" /\ me.sessionCode = m.session
      /\ me.token = Seat(m.session, 0) /\ me.ws = old.ws /\ me.greeted = old.greeted
      /\ me.key = old.key /\ me.retry = old.retry
      /\ me.gate = old.gate /\ me.peerKeys = old.peerKeys
  BY ZenonT(40), <1>2, <1>5 DEF Client
<1>8. page'[p] = me
  BY <1>3 DEF ClientInv, PageTypes
<1>9. KeysOk(p)'
  BY <1>1, <1>4, <1>6, <1>7, <1>8, KeysKept
<1>10. TokenOk(p)'
  <2>1. Claim(p, Seat(m.session, 0))'
    <3>1. PICK t : t = Seat(m.session, 0)
      OBVIOUS
    <3>2. Claim(p, t)'
      BY <1>1, <1>4, <1>5, <1>7, <1>8, <3>1, ClaimKept
    <3> QED
      BY <3>1, <3>2
  <2>2. Announced(m.session)'
    BY <1>4, <1>5, AnnouncedSame
  <2>3. me.retry \notin {"waiting", "dialing"}
    BY <1>1, <1>6, <1>7 DEF TokenOk
  <2> QED
    BY <1>7, <1>8, <2>1, <2>2, <2>3 DEF TokenOk
<1> QED
  BY <1>1, <1>3, <1>4, <1>7, <1>9, <1>10, ReadsOwn, OwnSide

LEMMA JoinedSide ==
  ASSUME HubInv, ClientInv, NEW p \in Pages, Receive(p),
         NEW m, m = Head(wire[page[p].ws]), m.type = "joined", page[p].state = "joining"
  PROVE  ClientInv'
<1>1. PICK old \in Client : old = page[p]
  BY PageNow
<1>2. PICK token : token = IF m.token = NoSeat THEN None ELSE m.token
  OBVIOUS
<1>3. PICK me : me = [old EXCEPT !.state = "up", !.partyId = m.partyId, !.token = token]
  OBVIOUS
<1>4. page' = [page EXCEPT ![p] = me]
  BY <1>1, <1>2, <1>3 DEF Receive, Joined
<1>5. /\ HubInv' /\ UNCHANGED <<inbox, pc, todo, seat, session, owner>>
      /\ owner[old.ws] = p /\ old.greeted
      /\ m \in OwnMessages(old.ws)
  BY <1>1, ReadsOwn
<1>6. /\ m.partyId \in Nat /\ token \in Token \cup {None}
      /\ token # None => Claim(p, token)
  <2>1. m \in Message
    BY <1>5 DEF OwnMessages
  <2>2. m.partyId \in Nat /\ m.token \in Token
    BY <2>1 DEF Message
  <2> QED
    BY <1>2, <1>5, <2>2 DEF OwnMessages
<1>7. ConnOk(p) /\ TokenOk(p) /\ KeysOk(p)
  BY PageNow
<1>8. /\ me \in Client /\ me.state = "up" /\ me.sessionCode = old.sessionCode
      /\ me.token = token /\ me.ws = old.ws /\ me.greeted = old.greeted
      /\ me.key = old.key /\ me.retry = old.retry
      /\ me.gate = old.gate /\ me.peerKeys = old.peerKeys
  BY ZenonT(40), <1>3, <1>6 DEF Client
<1>9. page'[p] = me
  BY <1>4 DEF ClientInv, PageTypes
<1>10. KeysOk(p)'
  BY <1>1, <1>5, <1>7, <1>8, <1>9, KeysKept
<1>11. TokenOk(p)'
  <2>1. token # None => Claim(p, token)'
    BY <1>1, <1>5, <1>6, <1>8, <1>9, ClaimKept
  <2>2. me.sessionCode # None => Announced(me.sessionCode)'
    BY <1>1, <1>5, <1>7, <1>8, AnnouncedSame DEF TokenOk
  <2>3. me.retry \notin {"waiting", "dialing"}
    BY <1>1, <1>7, <1>8 DEF TokenOk
  <2> QED
    BY <1>8, <1>9, <2>1, <2>2, <2>3 DEF TokenOk
<1> QED
  BY <1>1, <1>4, <1>5, <1>8, <1>10, <1>11, ReadsOwn, OwnSide

LEMMA RefusedPageSide ==
  ASSUME HubInv, ClientInv, NEW p \in Pages, Receive(p),
         Head(wire[page[p].ws]).type = "error", page[p].state \in {"creating", "joining"}
  PROVE  ClientInv'
<1>1. PICK old \in Client : old = page[p]
  BY PageNow
<1>2. PICK me : me = [old EXCEPT !.state = "failed"]
  OBVIOUS
<1>3. page' = [page EXCEPT ![p] = me]
  BY <1>1, <1>2 DEF Receive, Refused
<1>4. HubInv' /\ UNCHANGED <<inbox, pc, todo, seat, session, owner>> /\ old.greeted
  BY <1>1, ReadsOwn
<1>5. ConnOk(p) /\ TokenOk(p) /\ KeysOk(p)
  BY PageNow
<1>6. /\ me \in Client /\ me.state = "failed" /\ me.sessionCode = old.sessionCode
      /\ me.token = old.token /\ me.ws = old.ws /\ me.greeted = old.greeted
      /\ me.key = old.key /\ me.retry = old.retry
      /\ me.gate = old.gate /\ me.peerKeys = old.peerKeys
  BY <1>2 DEF Client
<1>7. page'[p] = me
  BY <1>3 DEF ClientInv, PageTypes
<1>8. KeysOk(p)'
  BY <1>1, <1>4, <1>5, <1>6, <1>7, KeysKept
<1>9. TokenOk(p)'
  <2>1. me.token = None /\ me.retry \notin {"waiting", "dialing"}
    BY <1>1, <1>5, <1>6 DEF TokenOk
  <2>2. me.sessionCode # None => Announced(me.sessionCode)'
    BY <1>1, <1>4, <1>5, <1>6, AnnouncedSame DEF TokenOk
  <2> QED
    BY <1>6, <1>7, <2>1, <2>2 DEF TokenOk
<1> QED
  BY <1>1, <1>3, <1>4, <1>6, <1>8, <1>9, ReadsOwn, OwnSide

LEMMA ReadySide ==
  ASSUME HubInv, ClientInv, NEW p \in Pages, Receive(p),
         NEW m, m = Head(wire[page[p].ws]), m.type = "ready"
  PROVE  ClientInv'
<1>1. PICK old \in Client : old = page[p]
  BY PageNow
<1>2. PICK me : me = [old EXCEPT !.gate = m.keys]
  OBVIOUS
<1>3. page' = [page EXCEPT ![p] = me]
  BY <1>1, <1>2 DEF Receive
<1>4. /\ HubInv' /\ UNCHANGED <<inbox, pc, todo, seat, session, owner>>
      /\ old.ws \in Conns /\ owner[old.ws] = p /\ old.greeted
      /\ m \in OkMessages(old.ws)
  BY <1>1, ReadsOwn
<1>5. /\ m.keys \in Seq(Conns) /\ Everybody(m.keys, seat[old.ws].code)
      /\ pc[old.ws] \in {"read", "leave"}
  <2>1. m \in Message
    BY <1>4 DEF OkMessages
  <2>2. m.keys \in Seq(Conns)
    BY <2>1 DEF Message
  <2> QED
    BY <1>4, <2>2 DEF OkMessages
<1>6. PICK code : code = seat[old.key].code
  OBVIOUS
<1>7. old.key # None /\ Settled(old.key) /\ Heard(m.keys, code)
  BY <1>1, <1>4, <1>5, <1>6, ReadyHeard
<1>8. ConnOk(p) /\ TokenOk(p) /\ KeysOk(p)
  BY PageNow
<1>9. /\ me \in Client /\ me.state = old.state /\ me.sessionCode = old.sessionCode
      /\ me.token = old.token /\ me.ws = old.ws /\ me.greeted = old.greeted
      /\ me.key = old.key /\ me.retry = old.retry
      /\ me.gate = m.keys /\ me.peerKeys = old.peerKeys
  BY <1>2, <1>5 DEF Client
<1>10. page'[p] = me
  BY <1>3 DEF ClientInv, PageTypes
<1>11. KeysOk(p)'
  <2>1. Settled(old.key)' /\ Heard(m.keys, code)' /\ seat'[old.key].code = code
    BY <1>4, <1>6, <1>7 DEF Settled, Heard, Sessions
  <2>2. ASSUME NEW i \in DOMAIN me.peerKeys
        PROVE  /\ code \in Sessions' /\ i \in Nat /\ i < Len(session'[code].party)
               /\ me.peerKeys[i] = {me.key, session'[code].party[i + 1].key}
    <3>1. /\ code \in Sessions /\ i \in Nat /\ i < Len(session[code].party)
          /\ me.peerKeys[i] = {me.key, session[code].party[i + 1].key}
      BY <1>1, <1>6, <1>8, <1>9 DEF KeysOk
    <3> QED
      BY <1>4, <3>1 DEF Sessions
  <2> QED
    BY <1>7, <1>9, <1>10, <2>1, <2>2 DEF KeysOk
<1>12. TokenOk(p)'
  <2>1. me.token # None => Claim(p, me.token)'
    BY <1>1, <1>4, <1>8, <1>9, <1>10, ClaimKept DEF TokenOk
  <2>2. me.sessionCode # None => Announced(me.sessionCode)'
    BY <1>1, <1>4, <1>8, <1>9, AnnouncedSame DEF TokenOk
  <2> QED
    BY <1>1, <1>8, <1>9, <1>10, <2>1, <2>2 DEF TokenOk
<1>13. me.state = "joining" => me.sessionCode # None
  BY <1>1, <1>8, <1>9 DEF ConnOk
<1> QED
  BY <1>1, <1>3, <1>4, <1>9, <1>11, <1>12, <1>13, ReadsOwn, OwnSide

LEMMA ReceiveSide ==
  ASSUME HubInv, ClientInv, NEW p \in Pages, Receive(p)
  PROVE  HubInv' /\ ClientInv'
<1> SUFFICES ClientInv'
  BY ReadsOwn
<1>1. PICK m : m = Head(wire[page[p].ws])
  OBVIOUS
<1>2. /\ HubInv' /\ UNCHANGED <<inbox, pc, todo, seat, session, owner>>
      /\ \A c \in Conns : \/ wire'[c] = wire[c]
                          \/ wire[c] # <<>> /\ wire'[c] = Tail(wire[c])
  BY ReadsOwn
<1>3. ASSUME UNCHANGED page PROVE ClientInv'
  BY <1>2, <1>3, StillSide
<1>4. CASE m.type = "created"
  <2>1. CASE page[p].state = "creating"
    BY <1>1, <1>4, <2>1, CreatedSide
  <2>2. CASE ~(page[p].state = "creating")
    <3>1. UNCHANGED page
      BY <1>1, <1>4, <2>2 DEF Receive, Created
    <3> QED
      BY <1>3, <3>1
  <2> QED
    BY <2>1, <2>2
<1>5. CASE m.type = "joined"
  <2>1. CASE page[p].state = "joining"
    BY <1>1, <1>5, <2>1, JoinedSide
  <2>2. CASE ~(page[p].state = "joining")
    <3>1. UNCHANGED page
      BY <1>1, <1>5, <2>2 DEF Receive, Joined
    <3> QED
      BY <1>3, <3>1
  <2> QED
    BY <2>1, <2>2
<1>6. CASE m.type = "error"
  <2>1. CASE page[p].state \in {"creating", "joining"}
    BY <1>1, <1>6, <2>1, RefusedPageSide
  <2>2. CASE ~(page[p].state \in {"creating", "joining"})
    <3>1. UNCHANGED page
      BY <1>1, <1>6, <2>2 DEF Receive, Refused
    <3> QED
      BY <1>3, <3>1
  <2> QED
    BY <2>1, <2>2
<1>7. CASE m.type = "ready"
  BY <1>1, <1>7, ReadySide
<1>8. CASE m.type \notin {"created", "joined", "error", "ready"}
  <2>1. UNCHANGED page
    BY <1>1, <1>8 DEF Receive
  <2> QED
    BY <1>3, <2>1
<1> QED
  BY <1>4, <1>5, <1>6, <1>7, <1>8

-----------------------------------------------------------------------------
(* All steps together. *)
LEMMA ClientInvInit == ClientInit => HubInv /\ ClientInv
<1> SUFFICES ASSUME ClientInit PROVE HubInv /\ ClientInv
  OBVIOUS
<1>1. HubInv /\ Sessions = {}
  BY HubInvInit DEF ClientInit, HubInit, Sessions
<1>2. PICK me : me = NewClient
  OBVIOUS
<1>3. me \in Client
  <2>1. NoKeys \in [{} -> SUBSET Conns]
    BY DEF NoKeys
  <2>2. NoKeys \in KeyRings
    BY <2>1 DEF KeyRings
  <2>3. 0 \in 0 .. MaxAttempts
    BY ClientAssumption
  <2> QED
    BY <1>2, <2>2, <2>3 DEF NewClient, Client
<1>4. page = [p \in Pages |-> me] /\ owner = [c \in Conns |-> None]
  BY <1>2 DEF ClientInit
<1>5. PageTypes
  BY <1>3, <1>4 DEF PageTypes
<1>6. Homes
  BY <1>1 DEF Homes
<1>7. OwnQueues /\ Blanks /\ OwnSeats
  <2>1. \A c \in Conns : /\ inbox[c] = <<>> /\ wire[c] = <<>> /\ todo[c] = <<>>
                         /\ seat[c] = NoSeat /\ pc[c] = "read"
    BY DEF ClientInit, HubInit
  <2>2. OwnQueues
    <3>1. \A S : <<>> \in Seq(S)
      OBVIOUS
    <3> QED
      BY <2>1, <3>1 DEF OwnQueues
  <2>3. Blanks /\ OwnSeats
    BY <2>1 DEF Blanks, Blank, OwnSeats, OwnSeat, Settled
  <2> QED
    BY <2>2, <2>3
<1>8. PagesOk
  <2>1. /\ me.key = None /\ me.ws = None /\ me.state = "idle" /\ me.greeted = FALSE
        /\ me.token = None /\ me.retry = "no" /\ me.sessionCode = None /\ me.gate = <<>>
        /\ DOMAIN me.peerKeys = {}
    BY <1>2 DEF NewClient, NoKeys
  <2> QED
    BY <1>4, <2>1 DEF PagesOk, ConnOk, TokenOk, KeysOk
<1> QED
  BY <1>1, <1>5, <1>6, <1>7, <1>8 DEF ClientInv

LEMMA ServeSide ==
  ASSUME HubInv, ClientInv, NEW c \in Conns, Serve(c) \/ Break(c)
  PROVE  HubInv' /\ ClientInv'
<1>1. Goroutine(c) \/ Network(c)
  BY DEF Serve, Break, Network
<1>2. UNCHANGED clientVars
  BY DEF Serve, Break
<1>3. HubInv'
  BY <1>1, ServerStep
<1> QED
  BY <1>1, <1>2, <1>3, GoroutineSide

LEMMA EventLoopSide ==
  ASSUME HubInv, ClientInv, NEW p \in Pages, NEW size \in Nat, EventLoop(p, size)
  PROVE  HubInv' /\ ClientInv'
<1>1. CASE Opened(p, size)
  BY <1>1, OpenedSide
<1>2. CASE Receive(p)
  BY <1>2, ReceiveSide
<1>3. CASE DeriveKeys(p)
  <2>1. HubInv'
    BY <1>3, HubStutter DEF DeriveKeys
  <2> QED
    BY <1>3, <2>1, DeriveKeysSide
<1>4. CASE \E m \in opening[p] : Decrypt(p, m)
  <2>1. PICK m : Decrypt(p, m)
    BY <1>4
  <2>2. HubInv'
    BY <2>1, HubStutter DEF Decrypt
  <2> QED
    BY <2>1, <2>2, DecryptSide
<1>5. CASE CloseEvent(p)
  <2>1. HubInv'
    BY <1>5, HubStutter DEF CloseEvent
  <2> QED
    BY <1>5, <2>1, CloseEventSide
<1>6. CASE Redial(p)
  <2>1. HubInv'
    BY <1>6, HubStutter DEF Redial, Dial
  <2> QED
    BY <1>6, <2>1, RedialSide
<1> QED
  BY <1>1, <1>2, <1>3, <1>4, <1>5, <1>6 DEF EventLoop

LEMMA UserSide ==
  ASSUME HubInv, ClientInv, NEW p \in Pages, UserStep(p)
  PROVE  HubInv' /\ ClientInv'
<1>1. CASE Create(p)
  <2>1. HubInv'
    BY <1>1, HubStutter DEF Create, Dial
  <2> QED
    BY <1>1, <2>1, CreateSide
<1>2. CASE \E code \in ToldCodes : Join(p, code)
  <2>1. PICK code \in ToldCodes : Join(p, code)
    BY <1>2
  <2>2. HubInv'
    BY <2>1, HubStutter DEF Join, Dial
  <2> QED
    BY <2>1, <2>2, JoinSide
<1>3. CASE \E to \in Nat, text \in Pages : SendTo(p, to, text)
  BY <1>3, SendToSide
<1>4. CASE Close(p)
  BY <1>4, CloseSide
<1> QED
  BY <1>1, <1>2, <1>3, <1>4 DEF UserStep

LEMMA ClientInvStep == HubInv /\ ClientInv /\ [ClientNext]_relayVars => HubInv' /\ ClientInv'
<1> SUFFICES ASSUME HubInv, ClientInv, [ClientNext]_relayVars PROVE HubInv' /\ ClientInv'
  OBVIOUS
<1>1. ASSUME NEW p \in Pages, UserStep(p) \/ \E size \in Nat : EventLoop(p, size)
      PROVE  HubInv' /\ ClientInv'
  BY <1>1, UserSide, EventLoopSide
<1>2. ASSUME NEW c \in Conns, Serve(c) \/ Break(c) PROVE HubInv' /\ ClientInv'
  BY <1>2, ServeSide
<1>3. CASE (Cleanup \/ AbandonTimeout) /\ UNCHANGED clientVars
  BY <1>3, AgingStep, AgingSide
<1>4. CASE UNCHANGED relayVars
  <2>1. UNCHANGED hubVars /\ UNCHANGED clientVars
    BY <1>4 DEF relayVars
  <2>2. HubInv'
    BY <2>1, HubStutter
  <2>3. \A c \in Conns : /\ todo'[c] \in Seq(TrueWrites) /\ wire'[c] \in Seq(OwnMessages(c))
                         /\ Blank(c) => wire'[c] = <<>>
    BY <2>1, OwnNow DEF hubVars, Blank
  <2>4. Taken(None)
    BY <2>1 DEF Taken, hubVars
  <2>5. ClientInv'
    BY <2>1, <2>2, <2>3, <2>4, SameSession, QuietServer DEF hubVars, clientVars
  <2> QED
    BY <2>2, <2>5
<1> QED
  BY <1>1, <1>2, <1>3, <1>4 DEF ClientNext

\* The invariant, for every behaviour of pages and server.
THEOREM ClientInvariant == ClientSpec => [](HubInv /\ ClientInv)
  BY ClientInvInit, ClientInvStep, PTL DEF ClientSpec

-----------------------------------------------------------------------------
(* The properties. *)

\* A seat belongs to one page for good: a connection comes back to a seat
\* only from the page it was given to (relay.ts, hub.go handleReconnect).
THEOREM SeatsAreNotShared == ClientSpec => []SeatsNotShared
<1>1. HubInv /\ ClientInv => SeatsNotShared
  <2> SUFFICES ASSUME HubInv, ClientInv, NEW c \in Conns, NEW d \in Conns,
                      Settled(c), Settled(d), seat[c] = seat[d]
               PROVE  owner[c] = owner[d]
    BY DEF SeatsNotShared
  <2>1. PICK t, p, q : t = seat[c] /\ p = owner[c] /\ q = owner[d]
    OBVIOUS
  <2>2. t \in Token
    BY <2>1 DEF HubInv, StateTypes
  <2>3. Claim(p, t) /\ Claim(q, t)
    BY <2>1 DEF ClientInv, OwnSeats, OwnSeat
  <2>4. /\ page[p].key = page[q].key /\ p \in Pages /\ q \in Pages
        /\ page[p].key \in Conns
    BY <2>2, <2>3, PartyIndex DEF Claim, Token, HubInv
  <2>5. owner[page[p].key] = p /\ owner[page[q].key] = q
    BY <2>4, RelayAssumption DEF ClientInv, PagesOk, ConnOk
  <2> QED
    BY <2>1, <2>4, <2>5
<1> QED
  BY <1>1, ClientInvariant, PTL

\* What a page encrypts for party i only the page seated at i can read, and
\* that page derives the same key, even if it mistakes its own number.
THEOREM PeerKeysAreRight == ClientSpec => []PeerKeysRight
<1>1. HubInv /\ ClientInv => PeerKeysRight
  <2> SUFFICES ASSUME HubInv, ClientInv, NEW p \in Pages, NEW q \in Pages,
                      Seated(p), Seated(q), SeatOf(p).code = SeatOf(q).code,
                      SeatOf(q).id \in DOMAIN page[p].peerKeys
               PROVE  page[p].peerKeys[SeatOf(q).id] = {page[p].key, page[q].key}
    BY DEF PeerKeysRight
  <2>1. PICK k \in Conns : k = page[q].key /\ owner[k] = q /\ Settled(k)
    BY PageNow DEF Seated, Client, ConnOk
  <2>2. Claim(q, seat[k])
    BY <2>1 DEF ClientInv, OwnSeats, OwnSeat
  <2>3. session[seat[k].code].party[seat[k].id + 1].key = k
    BY <2>1, <2>2 DEF Claim
  <2>4. /\ KeysOk(p) /\ seat[page[p].key].code = seat[k].code /\ SeatOf(q).id = seat[k].id
    BY <2>1, PageNow DEF SeatOf
  <2>5. page[p].peerKeys[seat[k].id]
          = {page[p].key, session[seat[k].code].party[seat[k].id + 1].key}
    BY <2>4 DEF KeysOk
  <2> QED
    BY Zenon, <2>1, <2>3, <2>4, <2>5
<1> QED
  BY <1>1, ClientInvariant, PTL

-----------------------------------------------------------------------------
(* Limits, with pages that hang up by themselves. *)
Limited == ChargeInv /\ \A a \in Addresses : ipConns[a] <= MaxPerIP

LEMMA SameLimited ==
  ASSUME Limited, UNCHANGED <<link, ipConns>>
  PROVE  Limited'
<1>1. DOMAIN link' = Conns /\ \A c \in Conns : Counted(c)' <=> Counted(c)
  BY DEF Limited, ChargeInv, Counted
<1>2. ChargeInv'
  BY <1>1, SameCount DEF Limited
<1> QED
  BY <1>2 DEF Limited

LEMMA PerIPBound ==
  ASSUME Limited, NEW c \in Conns, Goroutine(c) \/ Network(c)
  PROVE  \A a \in Addresses : ipConns'[a] <= MaxPerIP
<1>1. AddressOf[c] \in Addresses /\ MaxPerIP \in Nat /\ ipConns \in [Addresses -> Nat]
  BY RelayAssumption DEF Limited, ChargeInv
<1>2. CASE AddIP(c)
  BY <1>1, <1>2 DEF AddIP, Limited
<1>3. CASE RemoveIP(c)
  BY <1>1, <1>3 DEF RemoveIP, Limited
<1>4. CASE ~AddIP(c) /\ ~RemoveIP(c)
  <2>1. UNCHANGED ipConns
    BY Zenon, <1>4 DEF Goroutine, HandleCreate, AddCreator, HandleJoin, AddJoiner, HandleReconnect,
       Reattach, HandleRelay, Write, Disconnect, Release, SendError, Network, Accept,
       AcceptFails, Hangup
  <2> QED
    BY <2>1 DEF Limited
<1> QED
  BY <1>2, <1>3, <1>4

LEMMA LimitedStep == Limited /\ [ClientNext]_relayVars => Limited'
<1> SUFFICES ASSUME Limited, [ClientNext]_relayVars PROVE Limited'
  OBVIOUS
<1>1. ASSUME NEW c \in Conns, Serve(c) \/ Break(c) PROVE Limited'
  <2>1. Goroutine(c) \/ Network(c)
    BY <1>1 DEF Serve, Break, Network
  <2>2. ChargeInv'
    BY <2>1, ChargeGoroutine, ChargeNetwork DEF Limited
  <2> QED
    BY <2>1, <2>2, PerIPBound DEF Limited
<1>2. ASSUME NEW p \in Pages, Close(p) PROVE Limited'
  <2>1. UNCHANGED ipConns /\ DOMAIN link' = Conns
    BY <1>2 DEF Close, Limited, ChargeInv
  <2>2. \A c \in Conns : Counted(c)' <=> Counted(c)
    BY <1>2 DEF Close, Counted, Limited, ChargeInv
  <2>3. ChargeInv'
    BY <2>1, <2>2, SameCount DEF Limited
  <2> QED
    BY <2>1, <2>3 DEF Limited
<1>3. ASSUME NEW p \in Pages, NEW size \in Nat, EventLoop(p, size) PROVE Limited'
  <2>1. UNCHANGED <<link, ipConns>>
    BY Zenon, <1>3 DEF EventLoop, Opened, Receive, DeriveKeys, Decrypt, CloseEvent, Redial, Dial, hubVars
  <2> QED
    BY <2>1, SameLimited
<1>4. ASSUME NEW p \in Pages, UserStep(p) PROVE Limited'
  <2>1. CASE Close(p)
    BY <1>2, <2>1
  <2>2. CASE ~Close(p)
    <3>1. UNCHANGED <<link, ipConns>>
      BY Zenon, <1>4, <2>2 DEF UserStep, Create, Join, Dial, SendTo, Request, hubVars
    <3> QED
      BY <3>1, SameLimited
  <2> QED
    BY <2>1, <2>2
<1>5. CASE Cleanup \/ AbandonTimeout
  BY <1>5, SameLimited
     DEF Cleanup, SweepStart, SweepLook, SweepFlag, SweepDelete, AbandonTimeout, hubVars
<1>6. CASE UNCHANGED relayVars
  BY <1>6, SameLimited DEF relayVars, hubVars
<1> QED
  BY <1>1, <1>3, <1>4, <1>5, <1>6 DEF ClientNext

LEMMA SweepTypesKept == HubInv /\ SweepTypeOK /\ [ClientNext]_relayVars => SweepTypeOK'
<1> SUFFICES ASSUME HubInv, SweepTypeOK, [ClientNext]_relayVars PROVE SweepTypeOK'
  OBVIOUS
<1>1. CASE Cleanup
  BY <1>1, SweepTypes
<1>2. CASE UNCHANGED sweep
  BY <1>2 DEF SweepTypeOK
<1> QED
  BY <1>1, <1>2 DEF ClientNext, AbandonTimeout, relayVars

\* Every variable of server and pages has its type: no address is charged
\* for more connections than MaxPerIP, a seat is in a session that exists,
\* a page counts at most MaxAttempts and holds only a connection it opened.
THEOREM ClientTypeCorrect == ClientSpec => []ClientTypeOK
<1>1. ClientInit => Limited
  <2> SUFFICES ASSUME ClientInit PROVE Limited
    OBVIOUS
  <2>1. ChargeInv /\ \A a \in Addresses : ipConns[a] = 0
    BY InitCharge DEF ClientInit, HubInit
  <2> QED
    BY <2>1, RelayAssumption DEF Limited
<1>2. ClientSpec => []Limited
  BY <1>1, LimitedStep, PTL DEF ClientSpec
<1>3. ClientInit => SweepTypeOK
  BY DEF ClientInit, HubInit, SweepTypeOK, Resting
<1>4. ClientSpec => []SweepTypeOK
  BY <1>3, SweepTypesKept, ClientInvariant, PTL DEF ClientSpec
<1>5. HubInv /\ ClientInv /\ Limited /\ SweepTypeOK => ClientTypeOK
  <2> SUFFICES ASSUME HubInv, ClientInv, Limited, SweepTypeOK PROVE ClientTypeOK
    OBVIOUS
  <2>1. ipConns \in [Addresses -> 0 .. MaxPerIP]
    BY RelayAssumption DEF Limited, ChargeInv
  <2>2. \A c \in Conns : seat[c] = NoSeat \/ seat[c].code \in Sessions
    BY DEF HubInv, SeatsOk
  <2>3. HubTypeOK
    BY <2>1, <2>2 DEF HubInv, StateTypes, HubTypeOK, Sessions
  <2>4. owner \in [Conns -> Pages \cup {None}]
    BY DEF ClientInv, PageTypes
  <2>5. ASSUME NEW p \in Pages
        PROVE  /\ page[p].state \in {"idle", "creating", "joining", "up", "failed", "closed"}
               /\ page[p].retry \in {"no", "waiting", "dialing", "gaveUp"}
               /\ page[p].attempts \in 0 .. MaxAttempts
               /\ page[p].ws # None => owner[page[p].ws] = p
    BY PageNow DEF Client
  <2> QED
    BY <2>3, <2>4, <2>5 DEF ClientTypeOK
<1> QED
  BY <1>2, <1>4, <1>5, ClientInvariant, PTL
=============================================================================
