------------------------------ MODULE PullPages ------------------------------
(***************************************************************************)
(* NvaultClient.pull of src/client/src/client.ts: download everything by   *)
(* following the server's pages.                                           *)
(*                                                                         *)
(* The server is not part of the repository, and the client trusts it with *)
(* nothing: here it answers a request with any response at all, or the     *)
(* request fails.  The client is single threaded, so all it does between   *)
(* two awaits is one step.                                                 *)
(***************************************************************************)
EXTENDS Naturals, Sequences, FiniteSets

CONSTANTS
  Key,       \* item keys
  Cursor,    \* page cursors, 1 to 4096 characters long
  None,      \* the null cursor
  Revision,  \* recipient revisions, 0 standing for the ones out of range
  Weight,    \* ciphertext bytes in a page
  Limit,     \* MAX_PULL_PAGE_ITEMS
  MaxItems,  \* MAX_PULL_ITEMS
  MaxPages,  \* MAX_PULL_PAGES
  MaxBytes   \* MAX_PULL_CIPHERTEXT_BYTES

ASSUME NoneAssumption == None \notin Cursor \cup Revision
ASSUME SizesAssumption == Revision \subseteq Nat /\ Weight \subseteq Nat
ASSUME LimitsAssumption ==
  Limit \in Nat \ {0} /\ MaxItems \in Nat /\ MaxPages \in Nat \ {0} /\ MaxBytes \in Nat

(* 1001 pages of 10 are more than 10000 items: the page limit is never     *)
(* what ends the pull of a vault that is not too large.                    *)
ASSUME PagesAssumption == Limit * MaxPages > MaxItems

(* A page, down to what pull looks at.  Kinds and versions, once checked,  *)
(* go with the key.                                                        *)
Pages == UNION {[1 .. n -> Key] : n \in 0 .. Limit + 1}
Response ==
  [keys : Pages, bytes : Weight, revision : Revision, cursor : Cursor \cup {None},
   done : BOOLEAN]

VARIABLES
  phase,        \* "ask", "wait", "returned", "thrown"
  pageNumber,
  items,        \* the keys of items, in order
  seenKeys,
  seenCursors,
  cursor,
  recipientRevision,  \* or None
  ciphertextBytes,
  asked,        \* history: the cursors requested
  sent,         \* history: the keys of all responses, in order
  weight,       \* history: the bytes of all responses
  revisions,    \* history: the revisions of all responses
  plain         \* history: all responses were those of an honest server

local ==
  <<pageNumber, items, seenKeys, seenCursors, cursor, recipientRevision, ciphertextBytes>>
served == <<sent, weight, revisions, plain>>
vars == <<phase, local, asked, served>>

TypeOK ==
  /\ phase \in {"ask", "wait", "returned", "thrown"}
  /\ pageNumber \in 0 .. MaxPages
  /\ items \in Seq(Key)
  /\ seenKeys \subseteq Key
  /\ seenCursors \subseteq Cursor
  /\ cursor \in Cursor \cup {None}
  /\ recipientRevision \in Revision \cup {None}
  /\ ciphertextBytes \in Nat
  /\ asked \subseteq Cursor \cup {None}
  /\ sent \in Seq(Key)
  /\ weight \in Nat
  /\ revisions \subseteq Revision
  /\ plain \in BOOLEAN

Init ==
  /\ phase = "ask"
  /\ pageNumber = 0
  /\ items = <<>>
  /\ seenKeys = {}
  /\ seenCursors = {}
  /\ cursor = None
  /\ recipientRevision = None
  /\ ciphertextBytes = 0
  /\ asked = {}
  /\ sent = <<>>
  /\ weight = 0
  /\ revisions = {}
  /\ plain = TRUE

Ids(keys) == {keys[i] : i \in DOMAIN keys}
Distinct(keys) == \A i, j \in DOMAIN keys : keys[i] = keys[j] => i = j

-----------------------------------------------------------------------------
(* pullPage sends its request.                                             *)
Ask ==
  /\ phase = "ask"
  /\ pageNumber < MaxPages
  /\ phase' = "wait"
  /\ asked' = asked \cup {cursor}
  /\ UNCHANGED <<local, served>>

(* The loop ends without a last page.                                      *)
OutOfPages ==
  /\ phase = "ask"
  /\ pageNumber >= MaxPages
  /\ phase' = "thrown"
  /\ UNCHANGED <<local, asked, served>>

(* A network error, an HTTP status that is not OK, a body that is too long *)
(* or not JSON.                                                            *)
FetchFails ==
  /\ phase = "wait"
  /\ phase' = "thrown"
  /\ plain' = FALSE
  /\ UNCHANGED <<local, asked, sent, weight, revisions>>

(* Slip: whether there is a next cursor is not compared with done. *)
ParsesAnyCursor(r) == Len(r.keys) <= Limit /\ r.revision >= 1

(* parsePullResponse.                                                      *)
Parses(r) ==
  /\ Len(r.keys) <= Limit
  /\ r.revision >= 1
  /\ r.done <=> r.cursor = None

(* Slip: a change of the recipients is not noticed. *)
AnyRevision(r) == TRUE

SameRevision(r) == recipientRevision \in {None, r.revision}

(* Slip: the items already there are counted, not the ones to come. *)
FitsUntilFull(r) ==
  /\ Len(items) <= MaxItems
  /\ ciphertextBytes + r.bytes <= MaxBytes

(* Slip: a pull has to stay below the limit. *)
FitsBelow(r) ==
  /\ Len(items) + Len(r.keys) < MaxItems
  /\ ciphertextBytes + r.bytes <= MaxBytes

Fits(r) ==
  /\ Len(items) + Len(r.keys) <= MaxItems
  /\ ciphertextBytes + r.bytes <= MaxBytes

(* Slip: a key is compared with those of earlier pages only. *)
NewToPull(keys) == \A i \in DOMAIN keys : keys[i] \notin seenKeys

(* Every key is new when its turn comes.                                   *)
NewKeys(keys) ==
  \A i \in DOMAIN keys :
    keys[i] \notin seenKeys /\ \A j \in 1 .. i - 1 : keys[j] # keys[i]

Accepts(r) == Parses(r) /\ SameRevision(r) /\ Fits(r) /\ NewKeys(r.keys)

(* What a server does that pages through what it holds: full pages but for *)
(* the last, one recipient policy, no key and no cursor twice.             *)
Honest(r) ==
  /\ Parses(r)
  /\ r.done \/ Len(r.keys) = Limit
  /\ revisions \subseteq {r.revision}
  /\ Distinct(sent \o r.keys)
  /\ r.cursor \notin asked \/ r.done

Record(r) ==
  /\ sent' = sent \o r.keys
  /\ weight' = weight + r.bytes
  /\ revisions' = revisions \cup {r.revision}
  /\ plain' = (plain /\ Honest(r))

Take(r) ==
  /\ recipientRevision' = r.revision
  /\ items' = items \o r.keys
  /\ seenKeys' = seenKeys \cup Ids(r.keys)
  /\ ciphertextBytes' = ciphertextBytes + r.bytes

(* Slip: a pull that was refused a page asks for it again. *)
AskAgain(r) ==
  /\ phase = "wait"
  /\ ~Accepts(r)
  /\ phase' = "ask"
  /\ UNCHANGED <<local, asked, served>>

Refuse(r) ==
  /\ phase = "wait"
  /\ ~Accepts(r)
  /\ phase' = "thrown"
  /\ Record(r)
  /\ UNCHANGED <<local, asked>>

LastPage(r) ==
  /\ phase = "wait"
  /\ Accepts(r) /\ r.done
  /\ Take(r)
  /\ phase' = "returned"
  /\ Record(r)
  /\ UNCHANGED <<pageNumber, seenCursors, cursor, asked>>

(* Slip: a cursor already followed is followed again. *)
AnyCursor(r) ==
  /\ phase = "wait"
  /\ Accepts(r) /\ ~r.done
  /\ Take(r)
  /\ Record(r)
  /\ phase' = "ask"
  /\ pageNumber' = pageNumber + 1
  /\ cursor' = r.cursor
  /\ UNCHANGED <<seenCursors, asked>>

NextPage(r) ==
  /\ phase = "wait"
  /\ Accepts(r) /\ ~r.done
  /\ Take(r)
  /\ Record(r)
  /\ IF r.cursor \in seenCursors
     THEN phase' = "thrown" /\ UNCHANGED <<pageNumber, seenCursors, cursor>>
     ELSE /\ phase' = "ask"
          /\ pageNumber' = pageNumber + 1
          /\ seenCursors' = seenCursors \cup {r.cursor}
          /\ cursor' = r.cursor
  /\ UNCHANGED asked

Client == Ask \/ OutOfPages
Answer == FetchFails \/ \E r \in Response : Refuse(r) \/ LastPage(r) \/ NextPage(r)
Next == Client \/ Answer

Spec == Init /\ [][Next]_vars

(* The loop goes on; a request is answered or fails, as fetch has it.      *)
FairSpec == Spec /\ WF_vars(Client) /\ WF_vars(Answer)

-----------------------------------------------------------------------------
(* Properties.                                                             *)

(* What pull resolves to is everything the server sent, once each, from    *)
(* pages that agree on the recipients.                                     *)
PullExact ==
  phase = "returned" =>
    /\ items = sent /\ Distinct(sent)
    /\ \E v \in Revision : revisions = {v}

(* Whatever the server sends, pull keeps no more than its limits allow.    *)
PullBounded == Len(items) <= MaxItems /\ ciphertextBytes <= MaxBytes

(* The limits never fail the pull of a vault within them: with an honest   *)
(* server and requests that do not fail, pull throws only if there are     *)
(* more items or bytes than it may keep.                                   *)
LimitsLenient ==
  phase = "thrown" /\ plain => Len(sent) > MaxItems \/ weight > MaxBytes

(* No page is requested twice in one pull, so no server holds it in a      *)
(* cycle.                                                                  *)
AsksOnce == [][phase = "ask" /\ phase' = "wait" => cursor \notin asked]_vars

(* A pull ends whatever the server answers, as long as it answers.         *)
PullEnds == <>(phase \in {"returned", "thrown"})
=============================================================================
