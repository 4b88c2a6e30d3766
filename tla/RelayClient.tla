----------------------------- MODULE RelayClient -----------------------------
(***************************************************************************)
(* lib/relay.ts: the client of the relay in every page, on top of the      *)
(* server of RelayHub.  `wire` is consumed here.                           *)
(*                                                                         *)
(* A page is one RelayClient object in its event loop.  Its steps are the  *)
(* callbacks of the code; a step ends where the code awaits (key           *)
(* derivation, decryption) or returns to the event loop.  A page's ECDH    *)
(* key pair is named by the first connection it opens, as in RelayHub; the *)
(* AES key of two pages is the pair of their keys.  Backoff delays are     *)
(* left out: a timer may fire at any time.                                 *)
(***************************************************************************)
EXTENDS RelayHub

CONSTANTS Pages, MaxAttempts

ASSUME ClientAssumption == MaxAttempts \in Nat /\ None \notin Pages

VARIABLES
  owner,   \* the page that opened a connection
  page,    \* the fields of each RelayClient
  opening, \* relayed messages a page has read and not yet decrypted
  got,     \* `message` events a page has emitted, and errors about one
  sent     \* what a page's send() has handed to an open socket, by party

clientVars == <<owner, page, opening, got, sent>>
relayVars == <<hubVars, sweep, clientVars>>

NoKeys == [i \in {} |-> {}]

NewClient ==
  [state |-> "idle", partyId |-> None, sessionCode |-> None, token |-> None,
   key |-> None, ws |-> None, greeted |-> FALSE, retry |-> "no", attempts |-> 0,
   gate |-> <<>>, isReady |-> FALSE, peerKeys |-> NoKeys]

ClientInit ==
  /\ HubInit
  /\ owner = [c \in Conns |-> None]
  /\ page = [p \in Pages |-> NewClient]
  /\ opening = [p \in Pages |-> {}]
  /\ got = [p \in Pages |-> <<>>]
  /\ sent = [p \in Pages |-> {}]

-----------------------------------------------------------------------------
(* openSocket, and the new WebSocket of attemptReconnect. *)
Fresh == {c \in Conns : owner[c] = None}

Dial(p, c) ==
  /\ c \in Fresh
  /\ owner' = [owner EXCEPT ![c] = p]
  /\ UNCHANGED <<hubVars, opening, got, sent>>

Create(p) ==
  /\ page[p].state = "idle"
  /\ \E c \in Fresh :
       /\ Dial(p, c)
       /\ page' = [page EXCEPT ![p].state = "creating", ![p].key = c, ![p].ws = c]

Join(p, code) ==
  /\ page[p].state = "idle"
  /\ \E c \in Fresh :
       /\ Dial(p, c)
       /\ page' = [page EXCEPT ![p].state = "joining", ![p].key = c, ![p].ws = c,
                               ![p].sessionCode = code]

(* The `open` event: the first request goes out. *)
Opened(p, size) ==
  LET me == page[p] IN
  /\ me.ws # None /\ ~me.greeted
  /\ link[me.ws] = "open"
  /\ Request(me.ws,
       CASE me.retry = "dialing" -> [type |-> "reconnect", token |-> me.token]
         [] me.state = "creating" -> [type |-> "create", parties |-> size]
         [] OTHER -> [type |-> "join", session |-> me.sessionCode])
  /\ page' = [page EXCEPT ![p].greeted = TRUE, ![p].retry = "no", ![p].attempts = 0]
  /\ UNCHANGED <<link, wire, pc, todo, seat, ipConns, session, listed,
                 owner, opening, got, sent>>

-----------------------------------------------------------------------------
(* handleMessage, with the handlers create() and join() put in its place   *)
(* until the promise settles.                                              *)

Created(p, m) ==
  page' = IF page[p].state = "creating"
          THEN [page EXCEPT ![p].state = "up", ![p].partyId = m.partyId,
                            ![p].sessionCode = m.session, ![p].token = Seat(m.session, 0)]
          ELSE page

(* Mutant of Joined: the token of a broadcast is stored too. *)
JoinedAnyToken(p, m) ==
  page' = IF page[p].state = "joining"
          THEN [page EXCEPT ![p].state = "up", ![p].partyId = m.partyId,
                            ![p].token = Seat(page[p].sessionCode, m.partyId)]
          ELSE page

Joined(p, m) ==
  page' = IF page[p].state = "joining"
          THEN [page EXCEPT ![p].state = "up", ![p].partyId = m.partyId,
                            ![p].token = IF m.token = NoSeat THEN None ELSE m.token]
          ELSE page

Refused(p) ==
  page' = IF page[p].state \in {"creating", "joining"}
          THEN [page EXCEPT ![p].state = "failed"] ELSE page

Receive(p) ==
  /\ page[p].ws # None
  /\ wire[page[p].ws] # <<>>
  /\ LET m == Head(wire[page[p].ws]) IN
     /\ wire' = [wire EXCEPT ![page[p].ws] = Tail(@)]
     /\ CASE m.type = "created" -> Created(p, m) /\ UNCHANGED opening
          [] m.type = "joined" -> Joined(p, m) /\ UNCHANGED opening
          [] m.type = "ready" ->
               page' = [page EXCEPT ![p].gate = m.keys] /\ UNCHANGED opening
          [] m.type = "relay" ->
               opening' = [opening EXCEPT ![p] = @ \cup {m}] /\ UNCHANGED page
          [] m.type = "error" -> Refused(p) /\ UNCHANGED opening
          [] OTHER -> UNCHANGED <<page, opening>>   \* left, reconnected: events only
  /\ UNCHANGED <<link, inbox, pc, todo, seat, ipConns, session, listed, owner, got, sent>>

(* Mutant of DeriveKeys: peers are numbered without myself. *)
DeriveKeysRenumbered(p) ==
  LET me == page[p]
      peers == SelectSeq(me.gate, LAMBDA k : k # me.key)
  IN /\ me.gate # <<>> /\ ~me.isReady /\ me.state # "closed"
     /\ page' = [page EXCEPT ![p].isReady = TRUE,
                   ![p].peerKeys = [i \in 0 .. Len(peers) - 1 |-> {me.key, peers[i + 1]}]]
     /\ UNCHANGED <<hubVars, owner, opening, got, sent>>

(* handleReady: an AES key with everybody but the party it takes to be me. *)
DeriveKeys(p) ==
  LET me == page[p]
      others == {i \in 0 .. Len(me.gate) - 1 : i # me.partyId}
  IN /\ me.gate # <<>> /\ ~me.isReady /\ me.state # "closed"
     /\ page' = [page EXCEPT ![p].isReady = TRUE,
                   ![p].peerKeys = [i \in others |-> {me.key, me.gate[i + 1]}]]
     /\ UNCHANGED <<hubVars, owner, opening, got, sent>>

(* handleRelay, behind readyGate.  Decryptions end in any order; a message *)
(* from nobody known, or under another key, only raises an `error` event,  *)
(* here a `got` without text.                                              *)
Gated(p) == page[p].gate # <<>> /\ ~page[p].isReady

(* Mutant of Decrypt: a message from nobody known is dropped. *)
DecryptSilently(p, m) ==
  LET keys == page[p].peerKeys IN
  /\ m \in opening[p]
  /\ ~Gated(p)
  /\ opening' = [opening EXCEPT ![p] = @ \ {m}]
  /\ got' = IF m.from \in DOMAIN keys /\ keys[m.from] = m.payload.under
            THEN [got EXCEPT ![p] = Append(@, [from |-> m.from, text |-> m.payload.text])]
            ELSE got
  /\ UNCHANGED <<hubVars, owner, page, sent>>

Decrypt(p, m) ==
  LET keys == page[p].peerKeys IN
  /\ m \in opening[p]
  /\ ~Gated(p)
  /\ opening' = [opening EXCEPT ![p] = @ \ {m}]
  /\ got' = [got EXCEPT ![p] = Append(@, [from |-> m.from, text |->
       IF m.from \in DOMAIN keys /\ keys[m.from] = m.payload.under
       THEN m.payload.text ELSE None])]
  /\ UNCHANGED <<hubVars, owner, page, sent>>

-----------------------------------------------------------------------------
(* send and broadcast: one call per peer that has a key.  If the socket is *)
(* not open the message is lost and send() resolves all the same; for the  *)
(* page it is open from its `open` event on.                               *)
SendTo(p, to, text) ==
  LET me == page[p] IN
  /\ me.isReady /\ to \in DOMAIN me.peerKeys
  /\ IF me.ws # None /\ me.greeted /\ link[me.ws] = "open"
     THEN /\ Request(me.ws, [type |-> "relay", to |-> to,
                             payload |-> [under |-> me.peerKeys[to], text |-> text]])
          /\ sent' = [sent EXCEPT ![p] = @ \cup {to}]
     ELSE UNCHANGED <<inbox, sent>>
  /\ UNCHANGED <<link, wire, pc, todo, seat, ipConns, session, listed,
                 owner, page, opening, got>>

-----------------------------------------------------------------------------
(* Mutant of CloseEvent: attempts are counted and not looked at. *)
CloseEventForever(p) ==
  LET me == page[p] IN
  /\ me.ws # None /\ link[me.ws] \in {"gone", "closed"}
  /\ page' = IF me.token = None
             THEN [page EXCEPT ![p].ws = None, ![p].retry = "gaveUp"]
             ELSE [page EXCEPT ![p].ws = None, ![p].retry = "waiting",
                               ![p].attempts = @ + 1]
  /\ UNCHANGED <<hubVars, owner, opening, got, sent>>

(* The `close` event: attemptReconnect, first half.  What was on the wire  *)
(* and not yet read is lost.                                               *)
CloseEvent(p) ==
  LET me == page[p] IN
  /\ me.ws # None /\ link[me.ws] \in {"gone", "closed"}
  /\ page' = IF me.token = None \/ me.attempts >= MaxAttempts
             THEN [page EXCEPT ![p].ws = None, ![p].retry = "gaveUp"]
             ELSE [page EXCEPT ![p].ws = None, ![p].retry = "waiting",
                               ![p].attempts = @ + 1]
  /\ UNCHANGED <<hubVars, owner, opening, got, sent>>

(* attemptReconnect, second half: the timer. *)
Redial(p) ==
  /\ page[p].retry = "waiting"
  /\ \E c \in Fresh :
       /\ Dial(p, c)
       /\ page' = [page EXCEPT ![p].ws = c, ![p].retry = "dialing", ![p].greeted = FALSE]

(* close(): the keys go, nothing is tried again. *)
Close(p) ==
  LET me == page[p] IN
  /\ me.state = "up"
  /\ IF me.ws # None /\ link[me.ws] = "open"
     THEN link' = [link EXCEPT ![me.ws] = "gone"] ELSE UNCHANGED link
  /\ page' = [page EXCEPT ![p].state = "closed", ![p].ws = None, ![p].retry = "no",
                          ![p].token = None, ![p].peerKeys = NoKeys]
  /\ UNCHANGED <<inbox, wire, pc, todo, seat, ipConns, session, listed,
                 owner, opening, got, sent>>

EventLoop(p, size) ==
  \/ Opened(p, size)
  \/ Receive(p)
  \/ DeriveKeys(p)
  \/ \E m \in opening[p] : Decrypt(p, m)
  \/ CloseEvent(p)
  \/ Redial(p)

(* The server's steps; a connection exists once a page has dialled. *)
Serve(c) == (AddIP(c) \/ Accept(c) \/ Goroutine(c)) /\ owner[c] # None /\ UNCHANGED clientVars

Break(c) == (AcceptFails(c) \/ Hangup(c)) /\ owner[c] # None /\ UNCHANGED clientVars

(* What a user may do: a session can be joined by whoever was told its     *)
(* code, by its creator or by somebody who was told.                       *)
ToldCodes == {page[p].sessionCode : p \in Pages} \ {None}

UserStep(p) ==
  \/ Create(p)
  \/ \E code \in ToldCodes : Join(p, code)
  \/ \E to \in Nat, text \in Pages : SendTo(p, to, text)
  \/ Close(p)

ClientNext ==
  \/ \E p \in Pages : (UserStep(p) \/ \E size \in Nat : EventLoop(p, size)) /\ UNCHANGED sweep
  \/ \E c \in Conns : (Serve(c) \/ Break(c)) /\ UNCHANGED sweep
  \/ (Cleanup \/ AbandonTimeout) /\ UNCHANGED clientVars

ClientSpec == ClientInit /\ [][ClientNext]_relayVars

-----------------------------------------------------------------------------
SeatOf(p) == seat[page[p].key]
Settled(c) == seat[c] # NoSeat /\ pc[c] \notin {"create", "join"}
Seated(p) == page[p].key # None /\ Settled(page[p].key)
Dropped(p) == \E c \in Conns : owner[c] = p /\ link[c] \in {"gone", "closed"}
Misnumbered(p) == Seated(p) /\ page[p].partyId \notin {None, SeatOf(p).id}

ClientTypeOK ==
  /\ HubTypeOK
  /\ owner \in [Conns -> Pages \cup {None}]
  /\ \A p \in Pages :
       /\ page[p].state \in {"idle", "creating", "joining", "up", "failed", "closed"}
       /\ page[p].retry \in {"no", "waiting", "dialing", "gaveUp"}
       /\ page[p].attempts \in 0 .. MaxAttempts
       /\ page[p].ws # None => owner[page[p].ws] = p

(* A seat belongs to one page for good: a connection comes back to a seat  *)
(* only from the page it was given to, although a page may have taken      *)
(* another party's `joined` for its own (relay.ts:263).                    *)
SeatsNotShared ==
  \A c, d \in Conns :
    (Settled(c) /\ Settled(d) /\ seat[c] = seat[d]) => owner[c] = owner[d]

(* A page's AES key for party i is the one that the page seated at i will  *)
(* derive for it, even if it mistakes its own number: what it encrypts for *)
(* i only i can read.                                                      *)
PeerKeysRight ==
  \A p, q \in Pages :
    (Seated(p) /\ Seated(q) /\ p # q /\ SeatOf(p).code = SeatOf(q).code
       /\ SeatOf(q).id \in DOMAIN page[p].peerKeys)
      => page[p].peerKeys[SeatOf(q).id] = {page[p].key, page[q].key}

(* Once a session is full every page in it gets its keys, whatever the     *)
(* order of the joins, unless its connection is lost or it is closed.      *)
ReadyReachesAll ==
  []<>(\A p \in Pages :
         (Seated(p) /\ Full(session[SeatOf(p).code])) => (page[p].isReady \/ Dropped(p)))

HandedOver(p, q) == Seated(q) /\ SeatOf(q).id \in sent[p]
Emitted(q, texts) == \E i \in DOMAIN got[q] : got[q][i].text \in texts

(* Nothing is lost without a trace between open connections: what send()   *)
(* has handed to one is emitted by the page it was meant for, or that page *)
(* reports that it could not read something.                               *)
SentIsNoticed ==
  []<>(\A p, q \in Pages : (p # q /\ HandedOver(p, q)) =>
         \/ Emitted(q, {p, None})
         \/ \E r \in {p, q} : Dropped(r) \/ page[r].state = "closed")

===============================================================================
