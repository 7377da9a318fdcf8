----------------------------- MODULE AgentClient -----------------------------
(***************************************************************************)
(* The collector's command line client: every command runs in a thread of  *)
(* its own.  subscribe makes an AgentClient object, enters it in           *)
(* active_clients under its name, reads the stream and deletes the object; *)
(* unsubscribe finds an object by its name and cancels by the id the       *)
(* object got from the server.                                             *)
(*                                                                         *)
(* The server is the abstract Subscriptions, which AgentServer implements. *)
(* A client c names one object, the thread that runs its subscribe, and    *)
(* the server's subscription for it.  The management client, which is      *)
(* never deleted and never subscribes, is left out.                        *)
(***************************************************************************)
EXTENDS Subscriptions

CONSTANTS
  Name,         \* subscription names a user may choose
  Unsubscriber  \* threads that run unsubscribe

ASSUME ClientAssumption == None \notin Stream \cup Name

VARIABLES
  cpc,      \* where a subscribe thread is
  name,     \* _name
  active,   \* _active
  valid,    \* _subscription_id_valid
  sid,      \* _subscription_id
  table,    \* active_clients: name -> object
  broken,   \* clients whose call has failed on their side
  upc,      \* where an unsubscribe thread is
  target,   \* the object it found
  uid,      \* the id it sends
  hit       \* the subscription the server removed for it

clientVars == <<cpc, name, active, valid, sid, table, broken>>
cancelVars == <<upc, target, uid, hit>>
vars == <<subVars, clientVars, cancelVars>>

Init ==
  /\ SubInit
  /\ cpc = [c \in Stream |-> "none"]
  /\ name = [c \in Stream |-> None]
  /\ active = [c \in Stream |-> FALSE]
  /\ valid = [c \in Stream |-> FALSE]
  /\ sid = [c \in Stream |-> NullId]
  /\ table = [n \in Name |-> None]
  /\ broken = {}
  /\ upc = [u \in Unsubscriber |-> "idle"]
  /\ target = [u \in Unsubscriber |-> None]
  /\ uid = [u \in Unsubscriber |-> NullId]
  /\ hit = [u \in Unsubscriber |-> None]

Goto(c, from, to) == cpc[c] = from /\ cpc' = [cpc EXCEPT ![c] = to]
UGoto(u, from, to) == upc[u] = from /\ upc' = [upc EXCEPT ![u] = to]

(* The unsubscribe command is over.                                        *)
Return(u, from) ==
  /\ UGoto(u, from, "idle")
  /\ target' = [target EXCEPT ![u] = None]
  /\ uid' = [uid EXCEPT ![u] = NullId]
  /\ hit' = [hit EXCEPT ![u] = None]

-----------------------------------------------------------------------------
(* subscribe: the name is looked for, without the lock; one that is taken  *)
(* ends the command.                                                       *)
Subscribe(c, n) ==
  /\ Goto(c, "none", "free")
  /\ table[n] = None
  /\ name' = [name EXCEPT ![c] = n]
  /\ UNCHANGED <<subVars, active, valid, sid, table, broken, cancelVars>>

ResetId(c) == sid' = [sid EXCEPT ![c] = NullId]

(* create, under the lock.                                                 *)
Create(c) ==
  /\ Goto(c, "free", "created")
  /\ active' = [active EXCEPT ![c] = TRUE]
  /\ valid' = [valid EXCEPT ![c] = FALSE]
  /\ ResetId(c)
  /\ table' = [table EXCEPT ![name[c]] = c]
  /\ UNCHANGED <<subVars, name, broken, cancelVars>>

(* The server enters a new subscription, perhaps for a call that the      *)
(* client has given up before any metadata came back.                      *)
Serve(c, i) ==
  /\ cpc[c] = "created" \/ (cpc[c] \in {"delete", "deleted"} /\ ~valid[c])
  /\ Enter(c, i)
  /\ UNCHANGED <<clientVars, cancelVars>>

(* Its metadata come back with the subscription's id, ...                  *)
Metadata(c) ==
  /\ Goto(c, "created", "metadata")
  /\ life[c] # "none"
  /\ UNCHANGED <<subVars, name, active, valid, sid, table, broken, cancelVars>>

(* ... or with the null id and the end of the stream, ...                  *)
Refuse(c) ==
  /\ Goto(c, "created", "metadata")
  /\ life[c] = "none"
  /\ UNCHANGED <<subVars, name, active, valid, sid, table, broken, cancelVars>>

(* ... or never, whether or not the server has entered a subscription.     *)
NoMetadata(c) ==
  /\ Goto(c, "created", "delete")
  /\ c \in broken
  /\ UNCHANGED <<subVars, name, active, valid, sid, table, broken, cancelVars>>

(* The call may fail on the client's side, which shows where the client    *)
(* waits; the server learns of it later.                                   *)
Break(c) ==
  /\ cpc[c] \in {"created", "read", "finish"}
  /\ broken' = broken \cup {c}
  /\ UNCHANGED <<subVars, cpc, name, active, valid, sid, table, cancelVars>>

(* The id is valid first, and parsed afterwards.                           *)
SetValid(c) ==
  /\ Goto(c, "metadata", "parse")
  /\ valid' = [valid EXCEPT ![c] = TRUE]
  /\ UNCHANGED <<subVars, name, active, sid, table, broken, cancelVars>>

(* The id of the reply, 0 if it was refused; and a mutated form that       *)
(* parses another number.                                                  *)
OtherNumber(c) == IdMin
SubscriptionId(c) == ident[c]

ParseId(c) ==
  /\ Goto(c, "parse", "read")
  /\ sid' = [sid EXCEPT ![c] = SubscriptionId(c)]
  /\ UNCHANGED <<subVars, name, active, valid, table, broken, cancelVars>>

(* The server has ended the stream, or never began it, or the call has     *)
(* failed; in a mutated form nobody waits for that.                        *)
NoWait(c) == cpc[c] # "none"
Over(c) == life[c] \in {"none", "deleted"} \/ c \in broken

(* Read returns false, or a message for a client that is no longer active; *)
(* in a mutated form only the flag counts.                                 *)
FlagOnly(c) == ~active[c]
EndOfLoop(c) == Over(c) \/ ~active[c]

LeaveLoop(c) ==
  /\ Goto(c, "read", "finish")
  /\ EndOfLoop(c)
  /\ UNCHANGED <<subVars, name, active, valid, sid, table, broken, cancelVars>>

(* Finish waits for the end of the stream.                                 *)
Finish(c) ==
  /\ Goto(c, "finish", "delete")
  /\ Over(c)
  /\ UNCHANGED <<subVars, name, active, valid, sid, table, broken, cancelVars>>

(* The destructor erases the entry of its name, whoever's it is; and a     *)
(* mutated form in which the entry stays.                                  *)
LeaveEntry(c) == table' = table
EraseEntry(c) == table' = [table EXCEPT ![name[c]] = None]

Destroy(c) ==
  /\ Goto(c, "delete", "deleted")
  /\ EraseEntry(c)
  /\ UNCHANGED <<subVars, name, active, valid, sid, broken, cancelVars>>

-----------------------------------------------------------------------------
(* unsubscribe: the name is looked up, without the lock.                   *)
Find(u, n) ==
  /\ UGoto(u, "idle", "found")
  /\ table[n] # None
  /\ target' = [target EXCEPT ![u] = table[n]]
  /\ UNCHANGED <<subVars, clientVars, uid, hit>>

(* cancelSubscribeTelemetry: without a valid id it ends; otherwise the id  *)
(* is sent.  The object may have been deleted since; what is left of its   *)
(* fields is read.                                                         *)
SendCancel(u) ==
  /\ \/ /\ Return(u, "found")
        /\ ~valid[target[u]]
     \/ /\ UGoto(u, "found", "sent")
        /\ valid[target[u]]
        /\ uid' = [uid EXCEPT ![u] = sid[target[u]]]
        /\ UNCHANGED <<target, hit>>
  /\ UNCHANGED <<subVars, clientVars>>

(* The server finds the id and removes its subscription, or finds none.    *)
CancelFound(u) ==
  /\ UGoto(u, "sent", "success")
  /\ uid[u] \in Ids
  /\ store[uid[u]] # None
  /\ Erase(store[uid[u]])
  /\ hit' = [hit EXCEPT ![u] = store[uid[u]]]
  /\ UNCHANGED <<clientVars, target, uid>>

CancelUnknown(u) ==
  /\ Return(u, "sent")
  /\ uid[u] \in Ids => store[uid[u]] = None
  /\ UNCHANGED <<subVars, clientVars>>

(* The call fails, and nobody looks at its status: the code of the empty   *)
(* reply is 0, SUCCESS.  A server that gets the request all the same does  *)
(* what Expire does.                                                       *)
CancelFails(u) ==
  /\ UGoto(u, "sent", "success")
  /\ UNCHANGED <<subVars, clientVars, target, uid, hit>>

(* SUCCESS: the object is no longer active.  A write to a deleted object   *)
(* may meet another one that was created in its place.  In a mutated form  *)
(* the flag is left alone.                                                 *)
StaysActive(u) == active' = active

SetInactive(u) ==
  IF cpc[target[u]] = "deleted"
  THEN \/ active' = active
       \/ \E c \in Stream :
            /\ cpc[c] \notin {"none", "free", "deleted"}
            /\ active' = [active EXCEPT ![c] = FALSE]
  ELSE active' = [active EXCEPT ![target[u]] = FALSE]

Succeed(u) ==
  /\ Return(u, "success")
  /\ SetInactive(u)
  /\ UNCHANGED <<subVars, cpc, name, valid, sid, table, broken>>

-----------------------------------------------------------------------------
(* The server ends a stream, at a limit or when its client has gone, and   *)
(* deletes what was removed.                                               *)
Expire(c) == Erase(c) /\ UNCHANGED <<clientVars, cancelVars>>
ServerDelete(c) == Delete(c) /\ UNCHANGED <<clientVars, cancelVars>>

ClientStep(c) ==
  \/ SetValid(c) \/ ParseId(c) \/ LeaveLoop(c) \/ Finish(c) \/ Destroy(c)

CancelStep(u) ==
  SendCancel(u) \/ CancelFound(u) \/ CancelUnknown(u) \/ CancelFails(u) \/ Succeed(u)

Next ==
  \/ \E c \in Stream :
       \/ \E n \in Name : Subscribe(c, n)
       \/ Create(c) \/ Metadata(c) \/ Refuse(c) \/ NoMetadata(c) \/ Break(c)
       \/ ClientStep(c)
       \/ \E i \in Ids : Serve(c, i)
       \/ Expire(c) \/ ServerDelete(c)
  \/ \E u \in Unsubscriber : CancelStep(u) \/ \E n \in Name : Find(u, n)

Spec == Init /\ [][Next]_vars

(* Metadata that were sent arrive, or the call fails; Read and Finish      *)
(* return when the stream is over; other steps of threads are taken; and   *)
(* the server deletes what it removed (AgentServer's StreamEnds).          *)
(* Messages may stop coming to a stream that is open; nobody need          *)
(* subscribe or unsubscribe, and no limit need be reached.                 *)
FairSpec ==
  /\ Spec
  /\ \A c \in Stream :
       /\ WF_vars(ClientStep(c) /\ (cpc[c] = "read" => Over(c)))
       /\ WF_vars(Metadata(c) \/ NoMetadata(c))
       /\ WF_vars(ServerDelete(c))
  /\ \A u \in Unsubscriber : WF_vars(CancelStep(u))

-----------------------------------------------------------------------------
(* Properties.                                                             *)

(* Every variable has its type.                                            *)
TypeOK ==
  /\ cpc \in [Stream -> {"none", "free", "created", "metadata", "parse",
                         "read", "finish", "delete", "deleted"}]
  /\ name \in [Stream -> Name \cup {None}]
  /\ active \in [Stream -> BOOLEAN] /\ valid \in [Stream -> BOOLEAN]
  /\ sid \in [Stream -> Ids \cup {NullId}]
  /\ table \in [Name -> Stream \cup {None}]
  /\ broken \in SUBSET Stream
  /\ upc \in [Unsubscriber -> {"idle", "found", "sent", "success"}]
  /\ target \in [Unsubscriber -> Stream \cup {None}]
  /\ uid \in [Unsubscriber -> Ids \cup {NullId}]
  /\ hit \in [Unsubscriber -> Stream \cup {None}]

(* A name leads to an object that exists and has that name, although two   *)
(* objects may have been created under it and each destructor erases the   *)
(* entry: nobody finds a deleted object.                                   *)
TableCurrent ==
  \A n \in Name : table[n] # None =>
    /\ name[table[n]] = n
    /\ cpc[table[n]] \notin {"none", "free", "deleted"}

(* The client's variables stay well-formed and its table of names current. *)
TableInv == TypeOK /\ TableCurrent

(* When every client that began has been deleted, no name is taken, and    *)
(* what the server still has are subscriptions whose call has failed on    *)
(* the client's side: it has yet to see that their clients have gone.      *)
NothingLeft ==
  (\A c \in Stream : cpc[c] \in {"none", "free", "deleted"}) =>
    /\ \A n \in Name : table[n] = None
    /\ \A i \in Ids : store[i] \in broken \cup {None}

(* A message comes to a client that reads and is no longer active.         *)
MessageComes(c) == WF_vars(LeaveLoop(c))

(* A client whose unsubscribe came back with SUCCESS, an unread failure    *)
(* and a hit on another's subscription included, ends if one more message  *)
(* comes, or waits in Finish for a server that keeps the stream open.      *)
CancelEnds ==
  \A c \in Stream : MessageComes(c) =>
    \A u \in Unsubscriber :
      upc[u] = "success" /\ target[u] = c ~>
        cpc[c] = "deleted" \/ (cpc[c] = "finish" /\ ~Over(c))

(* A client whose stream the server has ended goes, messages or not, and   *)
(* leaves its name.                                                        *)
StreamsClose ==
  \A c \in Stream :
    life[c] = "deleted" ~> cpc[c] = "deleted"

(* Clients end, whoever ended their stream.                                *)
ClientsEnd == CancelEnds /\ StreamsClose

(* An unsubscribe takes another client's subscription only when that of    *)
(* the client that was named was gone before, and its id given away.       *)
CancelsOwn ==
  \A u \in Unsubscriber : hit[u] \notin {None, target[u]} =>
    life[target[u]] \in {"erased", "deleted"}
=============================================================================
