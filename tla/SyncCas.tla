-------------------------------- MODULE SyncCas --------------------------------
(***************************************************************************)
(* push, versions and delete of NvaultClient (src/client/src/client.ts),   *)
(* by any number of clients of one environment.                            *)
(*                                                                         *)
(* Every call is an actor of its own: it sends one request, and one answer *)
(* or an error ends it.  The server is not in the repository; it is        *)
(* modelled as the client needs it: one transaction per request, which     *)
(* compares versions.  Nothing but this comparison keeps a request from    *)
(* being applied late, again, or after its call has ended, so that all of  *)
(* this happens here.  The client forwards the recipient revision without  *)
(* a look at it: a push that the server refuses for its revision is one    *)
(* that is never applied.  A request that changes nothing, and the way of  *)
(* an answer, need no steps.                                               *)
(***************************************************************************)
EXTENDS Naturals, Sequences, FiniteSets

CONSTANTS
  Key,         \* item keys of the scope
  MaxItems,    \* MAX_PUSH_ITEMS
  MaxCalls     \* bound: calls

ASSUME BoundsAssumption == MaxItems \in Nat \ {0} /\ MaxCalls \in Nat

VARIABLES
  history,   \* the writes of each key, in order: its version is their number
  calls      \* the calls, in the order they were made

vars == <<history, calls>>

(* A push item, or the key of a versions or delete.  Ciphertexts are told  *)
(* apart by the call that sends them.                                      *)
Item == [key : Key, expected : 0 .. MaxCalls]
Batch == UNION {[1 .. n -> Item] : n \in 0 .. MaxItems}
Result == [key : Key, version : 0 .. MaxCalls, deleted : BOOLEAN]
Results == UNION {[1 .. n -> Result] : n \in 0 .. MaxItems}

(* passed is the argument, outbound the client's copy of it; since has the *)
(* versions at the time of the call.                                       *)
CallRecord ==
  [op : {"push", "versions", "delete"}, passed : Batch, outbound : Batch,
   since : [Key -> 0 .. MaxCalls],
   state : {"wait", "resolved", "thrown"}, results : Results]

(* A write, and the call that made it.                                     *)
Write == [by : 1 .. MaxCalls, deleted : BOOLEAN]

TypeOK ==
  /\ history \in [Key -> Seq(Write)]
  /\ \A k \in Key : Len(history[k]) <= MaxCalls
  /\ calls \in Seq(CallRecord) /\ Len(calls) <= MaxCalls

Init ==
  /\ history = [k \in Key |-> <<>>]
  /\ calls = <<>>

Version(k) == Len(history[k])
Deleted(k) == Version(k) > 0 /\ history[k][Version(k)].deleted
Keys(batch) == {batch[i].key : i \in DOMAIN batch}

-----------------------------------------------------------------------------
(* Calls.                                                                  *)

(* What push and versions check of the array as a whole.  Anything else    *)
(* throws before a request is sent.                                        *)
Valid(batch) ==
  /\ Len(batch) \in 1 .. MaxItems
  /\ \A i, j \in DOMAIN batch : batch[i].key = batch[j].key => i = j

(* A caller passes versions it has learned, none that is still to come.    *)
Call(op, batch) ==
  /\ Len(calls) < MaxCalls
  /\ Valid(batch)
  /\ \A i \in DOMAIN batch : batch[i].expected <= Version(batch[i].key)
  /\ calls' = Append(calls,
       [op |-> op, passed |-> batch, outbound |-> batch,
        since |-> [k \in Key |-> Version(k)], state |-> "wait", results |-> <<>>])
  /\ UNCHANGED history

Push(batch) == Call("push", batch)
Versions(batch) == (\A i \in DOMAIN batch : batch[i].expected = 0) /\ Call("versions", batch)
Delete(item) == Call("delete", <<item>>)

-----------------------------------------------------------------------------
(* The server.                                                             *)

(* Slip: the expected versions are left out of the request. *)
AnyCurrent(n) == TRUE

Current(n) ==
  \A i \in DOMAIN calls[n].outbound :
    calls[n].outbound[i].expected = Version(calls[n].outbound[i].key)

(* The write of call n, for all keys of its batch at once.                 *)
Store(n, tombstone) ==
  /\ history' = [k \in Key |->
       IF k \in Keys(calls[n].outbound)
       THEN Append(history[k], [by |-> n, deleted |-> tombstone])
       ELSE history[k]]
  /\ UNCHANGED calls

ApplyPush(n) ==
  /\ calls[n].op = "push"
  /\ Current(n)
  /\ Store(n, FALSE)

ApplyDelete(n) ==
  /\ calls[n].op = "delete"
  /\ Current(n)
  /\ \A k \in Keys(calls[n].outbound) : Version(k) > 0 /\ ~Deleted(k)
  /\ Store(n, TRUE)

(* A push is answered when it was applied, now or earlier; a delete when   *)
(* the key is deleted, whoever did it.                                     *)
Answered(n) ==
  \/ calls[n].op = "push" /\ \E k \in Key : \E v \in DOMAIN history[k] : history[k][v].by = n
  \/ calls[n].op = "versions"
  \/ calls[n].op = "delete" /\ \A k \in Keys(calls[n].outbound) : Deleted(k)

(* The answer says what the keys have when it is written, in any order.    *)
Answers(n) ==
  LET batch == calls[n].outbound
      Orders == {f \in [DOMAIN batch -> DOMAIN batch] :
                   \A i, j \in DOMAIN f : f[i] = f[j] => i = j}
  IN  {[i \in DOMAIN batch |->
          [key |-> batch[f[i]].key, version |-> Version(batch[f[i]].key),
           deleted |-> Deleted(batch[f[i]].key)]] : f \in Orders}

-----------------------------------------------------------------------------
(* The end of a call.                                                      *)

(* parsePushResponse, parseVersionsResponse, parseDeleteResponse: what     *)
(* they ask of a result that has the key it should have.                   *)
PushResult(result, item) == result.version = item.expected + 1
VersionResult(result, item) == ~(result.version = 0 /\ result.deleted)
DeleteResult(result, item) ==
  result.deleted /\ result.version - item.expected \in {0, 1}

OfOp(op, result, item) ==
  CASE op = "push" -> PushResult(result, item)
    [] op = "versions" -> VersionResult(result, item)
    [] op = "delete" -> DeleteResult(result, item)

(* Slip: results are compared with the caller's array. *)
ParsesArray(call, array, results) ==
  /\ Len(results) = Len(array)
  /\ \A i \in DOMAIN results :
       results[i].key = array[i].key /\ OfOp(call.op, results[i], array[i])

(* Slip: the order of results is trusted. *)
ParsesAnyOrder(call, array, results) ==
  /\ Len(results) = Len(call.outbound)
  /\ \A i \in DOMAIN results : OfOp(call.op, results[i], call.outbound[i])

(* Slip: any tombstone will do. *)
ParsesAnyTombstone(call, array, results) ==
  /\ Len(results) = Len(call.outbound)
  /\ \A i \in DOMAIN results :
       /\ results[i].key = call.outbound[i].key
       /\ IF call.op = "delete" THEN results[i].deleted
          ELSE OfOp(call.op, results[i], call.outbound[i])

(* The results of an answer, compared with the client's copy; array is     *)
(* what the caller's has become while the call was waiting.                *)
Parses(call, array, results) ==
  /\ Len(results) = Len(call.outbound)
  /\ \A i \in DOMAIN results :
       /\ results[i].key = call.outbound[i].key
       /\ OfOp(call.op, results[i], call.outbound[i])

Resolve(n) ==
  /\ calls[n].state = "wait"
  /\ Answered(n)
  /\ \E results \in Answers(n), array \in Batch :
       /\ Parses(calls[n], array, results)
       /\ calls' = [calls EXCEPT ![n].state = "resolved", ![n].results = results]
  /\ UNCHANGED history

(* An answer that does not parse, an HTTP error such as 409, a network     *)
(* error: the caller cannot tell whether the request was applied or still  *)
(* will be.                                                                *)
Throw(n) ==
  /\ calls[n].state = "wait"
  /\ calls' = [calls EXCEPT ![n].state = "thrown"]
  /\ UNCHANGED history

Caller ==
  \/ \E batch \in Batch : Push(batch) \/ Versions(batch)
  \/ \E item \in Item : Delete(item)

Server == \E n \in DOMAIN calls : ApplyPush(n) \/ ApplyDelete(n)
Client == \E n \in DOMAIN calls : Resolve(n) \/ Throw(n)

Next == Caller \/ Server \/ Client

Spec == Init /\ [][Next]_vars

-----------------------------------------------------------------------------
(* Properties.                                                             *)

Resolved(op) == {n \in DOMAIN calls : calls[n].state = "resolved" /\ calls[n].op = op}

(* The versions of a key that a call has written.                          *)
WritesOf(n, k) == {v \in DOMAIN history[k] : history[k][v].by = n}

(* A resolved push has stored what was passed, all of it, once, and as the *)
(* versions it returned, which replaced the expected ones.  So of pushes   *)
(* with the same expected version, retries of a lost answer among them, at *)
(* most one resolves.                                                      *)
PushTrue ==
  \A n \in Resolved("push") :
    LET passed == calls[n].passed
        results == calls[n].results
    IN  /\ \A i \in DOMAIN passed :
             /\ results[i].key = passed[i].key
             /\ results[i].version = passed[i].expected + 1
             /\ WritesOf(n, passed[i].key) = {results[i].version}
        /\ \A k \in Key \ Keys(passed) : WritesOf(n, k) = {}

(* What versions resolves to was true of every key that was asked for, at  *)
(* an instant between call and return.                                     *)
VersionsTrue ==
  \A n \in Resolved("versions") : \A i \in DOMAIN calls[n].passed :
    LET k == calls[n].passed[i].key
        result == calls[n].results[i]
    IN  /\ result.key = k
        /\ result.version \in calls[n].since[k] .. Version(k)
        /\ result.deleted = (result.version > 0 /\ history[k][result.version].deleted)

(* A resolved delete means that the item was gone at an instant between    *)
(* call and return, and that no value newer than the one the caller knew   *)
(* went with it, whoever made the tombstone.                               *)
DeleteTrue ==
  \A n \in Resolved("delete") :
    LET item == calls[n].passed[1]
        v == calls[n].results[1].version
    IN  /\ v \in calls[n].since[item.key] .. Version(item.key)
        /\ v > 0 /\ history[item.key][v].deleted
        /\ \A w \in 1 .. v : history[item.key][w].deleted \/ w <= item.expected
=============================================================================
