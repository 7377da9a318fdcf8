---------------------------- MODULE PathValidator ----------------------------
(***************************************************************************)
(* PathValidator: the table of paths the device supports, built from a     *)
(* JSON file before the server runs, and validate_path, which the threads  *)
(* of telemetrySubscribe call without a lock.  validate_path looks a path  *)
(* up with operator[] of a std::map: an unknown path is inserted, with a   *)
(* null pointer.                                                           *)
(*                                                                         *)
(* Frequencies are rounded to thousands; Unit and Half stand for 1000 and  *)
(* 500, Mod for 2^32.                                                      *)
(***************************************************************************)
EXTENDS Integers, Sequences

CONSTANTS
  Path,            \* names of paths
  Files,           \* the valid_paths arrays that may be configured
  Frequency,       \* bound: sample frequencies that clients ask for
  Thread,          \* threads of telemetrySubscribe
  Unit, Half, Mod, \* see above
  DefaultMin,      \* SAMPLE_FREQUENCY_MIN
  DefaultMax,      \* SAMPLE_FREQUENCY_MAX
  Unset            \* a key that is missing in the file, no path

(* An object of the valid_paths array: every key may be missing.           *)
JsonObject ==
  [path : Path \cup {Unset}, filter : BOOLEAN \cup {Unset},
   suppress : BOOLEAN \cup {Unset}, silent : BOOLEAN \cup {Unset},
   min : Nat \cup {Unset}, max : Nat \cup {Unset}]

ASSUME ValidatorAssumption ==
  /\ Unit \in Nat \ {0} /\ Half \in 0 .. Unit - 1 /\ Mod \in Nat
  /\ DefaultMin \in Nat /\ DefaultMax \in Nat
  /\ Files \subseteq Seq(JsonObject)
  /\ \A f \in Files : \A k \in DOMAIN f :
       f[k].max # Unset => f[k].max + Half < Mod
  /\ DefaultMax + Half < Mod /\ Frequency \subseteq 0 .. Mod - 1
  /\ Unset \notin Path /\ Unset \notin BOOLEAN /\ Unset \notin Nat

VARIABLES
  file,    \* the configured array
  loaded,  \* how many of its objects have been read
  server,  \* is the agent loading, serving, or has it given up
  db,      \* path_information_db
  tpc,     \* where a thread is
  asked,   \* the path message it validates
  answer,  \* the message when validate_path returns
  raced    \* history: threads that searched while another inserted

vars == <<file, loaded, server, db, tpc, asked, answer, raced>>

Absent == [state |-> "absent"]
Null == [state |-> "null"]

Message == [path : Path, filter : BOOLEAN, suppress : BOOLEAN,
            silent : BOOLEAN, freq : Frequency]

(* path.Clear(): a message of no bytes, which the caller leaves out.       *)
Cleared == [path |-> Unset, filter |-> FALSE, suppress |-> FALSE,
            silent |-> FALSE, freq |-> 0]

Init ==
  /\ file \in Files
  /\ loaded = 0
  /\ server = "loading"
  /\ db = [p \in Path |-> Absent]
  /\ tpc = [t \in Thread |-> "idle"]
  /\ asked = [t \in Thread |-> Cleared]
  /\ answer = [t \in Thread |-> Cleared]
  /\ raced = {}

-----------------------------------------------------------------------------
Default(value, default) == IF value = Unset THEN default ELSE value

(* A PathInformation: the constructor's defaults and the object's keys.    *)
Info(e) ==
  [state |-> "info", filter |-> Default(e.filter, TRUE),
   suppress |-> Default(e.suppress, FALSE), silent |-> Default(e.silent, FALSE),
   min |-> Default(e.min, DefaultMin), max |-> Default(e.max, DefaultMax)]

(* build_path_information_db: the next object; without a path the build    *)
(* fails, and the agent ends.                                              *)
LoadNext ==
  /\ server = "loading" /\ loaded < Len(file)
  /\ LET e == file[loaded + 1]
     IN  IF e.path = Unset
         THEN server' = "failed" /\ UNCHANGED <<loaded, db>>
         ELSE /\ loaded' = loaded + 1
              /\ db' = [db EXCEPT ![e.path] = Info(e)]
              /\ UNCHANGED server
  /\ UNCHANGED <<file, tpc, asked, answer, raced>>

Loaded ==
  /\ server = "loading" /\ loaded = Len(file)
  /\ server' = "serving"
  /\ UNCHANGED <<file, loaded, db, tpc, asked, answer, raced>>

-----------------------------------------------------------------------------
(* Mutated forms: the number is cut off, or left as it is.                 *)
CutToThousandths(num, max) == (num \div Unit) * Unit
NotRounded(num, max) == num

(* _roundToThousandths, in uint32_t.                                       *)
RoundToThousandths(num, max) ==
  LET rounded == ((((num + Half) % Mod) \div Unit) * Unit) % Mod
  IN  IF rounded > max THEN max ELSE rounded

SampleFrequency(num, info) ==
  IF num < info.min THEN info.min
  ELSE IF num > info.max THEN info.max
  ELSE RoundToThousandths(num, info.max)

(* validate_path, given what operator[] returned.                          *)
Validated(info, msg) ==
  IF info.state # "info" THEN Cleared
  ELSE [path |-> msg.path,
        filter |-> msg.filter /\ info.filter,
        suppress |-> msg.suppress /\ info.suppress,
        silent |-> msg.silent /\ info.silent,
        freq |-> SampleFrequency(msg.freq, info)]

Ask(t, msg) ==
  /\ server = "serving"
  /\ tpc[t] = "idle" /\ tpc' = [tpc EXCEPT ![t] = "search"]
  /\ asked' = [asked EXCEPT ![t] = msg]
  /\ answer' = [answer EXCEPT ![t] = Cleared]
  /\ UNCHANGED <<file, loaded, server, db, raced>>

Return(t, result) ==
  /\ tpc' = [tpc EXCEPT ![t] = "done"]
  /\ answer' = [answer EXCEPT ![t] = result]

Inserting(t) == \E s \in Thread \ {t} : tpc[s] = "insert"

(* operator[]: the search.  A search while another thread relinks the tree *)
(* may miss its path.                                                      *)
Search(t) ==
  /\ tpc[t] = "search"
  /\ LET info == db[asked[t].path]
     IN  \/ /\ info # Absent
            /\ Return(t, Validated(info, asked[t]))
         \/ /\ info = Absent \/ Inserting(t)
            /\ tpc' = [tpc EXCEPT ![t] = "insert"]
            /\ UNCHANGED answer
  /\ raced' = IF Inserting(t) THEN raced \cup {t} ELSE raced
  /\ UNCHANGED <<file, loaded, server, db, asked>>

(* Mutated form: the entry that operator[] makes is a real one.            *)
InsertDefault(p) ==
  Info([path |-> p, filter |-> Unset, suppress |-> Unset, silent |-> Unset,
        min |-> Unset, max |-> Unset])
InsertNull(p) == Null

(* operator[]: the insertion of a null pointer, and the test for it.       *)
Insert(t) ==
  /\ tpc[t] = "insert"
  /\ LET p == asked[t].path
     IN  db' = [db EXCEPT ![p] = IF @ = Absent THEN InsertNull(p) ELSE @]
  /\ Return(t, Cleared)
  /\ UNCHANGED <<file, loaded, server, asked, raced>>

(* The caller takes the answer, and the thread serves another request.     *)
Take(t) ==
  /\ tpc[t] = "done" /\ tpc' = [tpc EXCEPT ![t] = "idle"]
  /\ asked' = [asked EXCEPT ![t] = Cleared]
  /\ answer' = [answer EXCEPT ![t] = Cleared]
  /\ raced' = raced \ {t}
  /\ UNCHANGED <<file, loaded, server, db>>

Next ==
  \/ LoadNext \/ Loaded
  \/ \E t \in Thread :
       \/ \E msg \in Message : Ask(t, msg)
       \/ Search(t) \/ Insert(t) \/ Take(t)

Spec == Init /\ [][Next]_vars

-----------------------------------------------------------------------------
(* The seconds of a reporting-rate (MILLISECS_TO_SECS), in milliseconds.   *)
ReportingRate(freq) == (freq \div Unit) * Unit

-----------------------------------------------------------------------------
(* Properties.                                                             *)

(* Every variable has its type.                                            *)
TypeOK ==
  /\ file \in Files /\ loaded \in 0 .. Len(file)
  /\ server \in {"loading", "serving", "failed"}
  /\ db \in [Path -> {Absent, Null} \cup {Info(file[k]) : k \in 1 .. loaded}]
  /\ tpc \in [Thread -> {"idle", "search", "insert", "done"}]
  /\ asked \in [Thread -> Message \cup {Cleared}]
  /\ answer \in [Thread -> [path : Path \cup {Unset}, filter : BOOLEAN,
                            suppress : BOOLEAN, silent : BOOLEAN, freq : Nat]]
  /\ raced \in SUBSET Thread

(* The last object of the file for a path.                                 *)
Objects(p) == {k \in DOMAIN file : file[k].path = p}
Listed(p) == Objects(p) # {}
LastObject(p) == file[CHOOSE k \in Objects(p) : \A j \in Objects(p) : j <= k]

(* The multiple of Unit nearest to a frequency between two bounds, the     *)
(* greater one of two.                                                     *)
Distance(a, b) == IF a > b THEN a - b ELSE b - a
Nearest(num, min, max) ==
  CHOOSE r \in {u \in min .. max : u % Unit = 0} :
    \A s \in {u \in min .. max : u % Unit = 0} :
      \/ Distance(num, r) < Distance(num, s)
      \/ Distance(num, r) = Distance(num, s) /\ r >= s

Min(p) == Default(LastObject(p).min, DefaultMin)
Max(p) == Default(LastObject(p).max, DefaultMax)
Done(t) == tpc[t] = "done"

(* Whatever was asked before, and however often: a path the file does not  *)
(* list is refused, and one it lists is accepted with the options it       *)
(* supports and the nearest whole second in its range.  There are two      *)
(* exceptions.  A search during another thread's insertion may refuse a    *)
(* path that is listed.  And nothing is said of the answer to frequency 0: *)
(* "the network device must emit an update upon every datum change", but   *)
(* the code raises 0 to the minimum like any other number below it.        *)
AnswerRight ==
  \A t \in Thread : Done(t) =>
    LET msg == asked[t]
    IN  /\ answer[t] # Cleared => Listed(msg.path)
        /\ Listed(msg.path) /\ t \notin raced => answer[t] # Cleared
        /\ answer[t] # Cleared =>
             LET e == LastObject(msg.path)
             IN  /\ answer[t].path = msg.path
                 /\ answer[t].filter <=> msg.filter /\ e.filter # FALSE
                 /\ answer[t].suppress <=> msg.suppress /\ e.suppress = TRUE
                 /\ answer[t].silent <=> msg.silent /\ e.silent = TRUE
                 /\ msg.freq # 0 =>
                      answer[t].freq = Nearest(msg.freq, Min(msg.path), Max(msg.path))

(* The rate a Junos device is configured with, in whole seconds, is the    *)
(* one the client is told; and asking again for what was accepted changes  *)
(* nothing.                                                                *)
ToldIsConfigured ==
  \A t \in Thread : Done(t) /\ answer[t] # Cleared =>
    /\ ReportingRate(answer[t].freq) = answer[t].freq
    /\ Validated(db[answer[t].path], answer[t]) = answer[t]

(* A path of the file never loses its entry to the entries that unknown    *)
(* paths are given, and no entry of an unknown path ever is a real one.    *)
DbIsFile ==
  server = "serving" =>
    \A p \in Path : db[p].state = "info" <=> Listed(p)

(* Every entry is a null one or comes from the file, and is the right one  *)
(* of the two for its path.                                                *)
DbInv == TypeOK /\ DbIsFile
=============================================================================
