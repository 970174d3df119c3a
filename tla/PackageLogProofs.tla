-------------------------- MODULE PackageLogProofs --------------------------
(***************************************************************************)
(* Every try of a package leaves its log, for profiles of any length, any  *)
(* commands and any number of runs.                                        *)
(***************************************************************************)
EXTENDS PackageLog, SequenceTheorems, TLAPS

Sending == {"CTRL_SENDING_LOG_FILE", "CTRL_SENDING_FILES_FILE", "CTRL_SENDING_STATE"}

\* What a transfer carries.
State       == [pkg : Packages, stamp : 1 .. MaxRuns]
Content(t)  == IF t = "CTRL_SENDING_LOG_FILE" THEN Log
               ELSE IF t = "CTRL_SENDING_FILES_FILE" THEN 0 .. MaxRuns ELSE State

Methods  == {"LOG_OFF", "LOG_USING_ONE_FIND"}
Statuses == {"RUN_STATUS_DONE", "another"}
Requests == {"CTRL_ELEMENT_STARTED", "CTRL_ELEMENT_ENDED", "CTRL_ELEMENT_FAILED",
             "CTRL_REQUESTING_STATE", "CTRL_REQUEST_EL_STATUS"}
Messages ==
    {m \in [type : Requests \cup Sending \cup NoContent \cup {"CTRL_DATA", "CTRL_DATA_SENT"},
            arg : (Packages \X Nat) \cup Packages \cup Log \cup (0 .. MaxRuns) \cup State
                    \cup Statuses \cup {""}] :
       m.type = "CTRL_ELEMENT_STARTED" => m.arg \in Packages \X Nat}

BackendState ==
    [pc : Living \cup {"none", "dead"}, pkg : 1 .. NumPackages + 1, act : Nat,
     ok : BOOLEAN, method : Methods, time_stamp : 0 .. MaxRuns,
     logs : Log \cup {NoLog}, outbox : Seq(Messages),
     end : {"exited", "killed", "crashed"}]

Typed ==
    /\ TypeOK
    /\ backend \in BackendState
    /\ to_front \in Seq(Messages)
    /\ to_back \in Seq(Messages)
    /\ \A i \in 1 .. Len(to_back) :
         to_back[i].type = "CTRL_DATA" => to_back[i].arg \in 1 .. MaxRuns
    /\ tries \in Seq(Packages)
    /\ run \in 0 .. MaxRuns

\* Where the backend is, and what it has in hand there.
InPackage == {"listen_in", "check", "action", "work", "ending", "wait_status",
              "listen_collect", "collect"}
Control ==
    /\ backend.pc = "none" => to_front = <<>> /\ frontend = "loop"
    /\ backend.pc \in Living => backend.end = "exited"
    /\ backend.pc \notin {"finishing", "exiting"} => backend.outbox = <<>>
    /\ backend.pc \in InPackage => backend.logs \in Log
    /\ backend.pc \notin InPackage /\ backend.end = "exited" => backend.logs = NoLog
    /\ backend.pc \notin {"none", "package", "listen_first", "exiting", "dead"} =>
         backend.pkg \in Packages
    /\ backend.pc = "work" => backend.act \in 1 .. NumActions[backend.pkg]

-----------------------------------------------------------------------------
(***************************************************************************)
(* The messages to the frontend, those being sent included.  A transfer is *)
(* never mixed with anything else; one may be cut off by a kill only.      *)
(***************************************************************************)
Queue == to_front \o backend.outbox

IsLog(q, i) == q[i].type = "CTRL_SENDING_LOG_FILE"

\* The list of files follows the log that announces it.
FramedAt(q, i) ==
    /\ q[i].type \in Sending <=> q[i + 1].type = "CTRL_DATA"
    /\ q[i].type \in Sending => q[i + 1].arg \in Content(q[i].type)
    /\ q[i].type = "CTRL_DATA" => q[i + 1].type = "CTRL_DATA_SENT"
    /\ IsLog(q, i) => q[i + 1].arg.pkg = q[i].arg
    /\ IsLog(q, i) /\ q[i + 1].arg.find = "yes" /\ i + 3 <= Len(q) =>
         q[i + 3].type = "CTRL_SENDING_FILES_FILE"

WholeAt(q, i) ==
    /\ q[i].type \in Sending => i + 2 <= Len(q)
    /\ q[i].type = "CTRL_DATA" => i + 1 <= Len(q)
    /\ IsLog(q, i) /\ q[i + 1].arg.find = "yes" => i + 3 <= Len(q)

Framed(q) == \A i \in 1 .. Len(q) - 1 : FramedAt(q, i)
Whole(q)  == \A i \in 1 .. Len(q) : WholeAt(q, i)

\* What comes next fits what the frontend is in the middle of reading.
DataIsNext(f, q) ==
    /\ q[1].type = "CTRL_DATA"
    /\ q[1].arg \in Content(f)
    /\ f = "CTRL_SENDING_LOG_FILE" /\ q[1].arg.find = "yes" /\ Len(q) >= 3 =>
         q[3].type = "CTRL_SENDING_FILES_FILE"

EndIsNext(f, inc, q) ==
    /\ q[1].type = "CTRL_DATA_SENT"
    /\ f = "CTRL_SENDING_LOG_FILE" =>
         inc \in Entry /\ (inc.find = "yes" /\ Len(q) >= 2 =>
                             q[2].type = "CTRL_SENDING_FILES_FILE")

Fits(f, inc, q) ==
    /\ f \in {"looking", "CTRL_SENDING_FILES_FILE"} => inc \in Entry
    /\ f = "looking" /\ q # <<>> => q[1].type = "CTRL_SENDING_FILES_FILE"
    /\ f \in Sending /\ q # <<>> => DataIsNext(f, q) \/ EndIsNext(f, inc, q)

Awaited(f, inc, q) ==
    /\ f \in {"looking"} \cup Sending => q # <<>>
    /\ f = "CTRL_SENDING_LOG_FILE" /\ q[1].type = "CTRL_DATA" /\ q[1].arg.find = "yes" =>
         Len(q) >= 3
    /\ f = "CTRL_SENDING_LOG_FILE" /\ q[1].type = "CTRL_DATA_SENT" /\ inc.find = "yes" =>
         Len(q) >= 2

Transfers ==
    /\ frontend \in {"loop", "looking"} \cup Sending
    /\ Framed(Queue)
    /\ Fits(frontend, incoming, Queue)
    /\ backend.end = "exited" => Whole(Queue) /\ Awaited(frontend, incoming, Queue)

-----------------------------------------------------------------------------
(***************************************************************************)
(* The tries of a run: those stored, the one whose log the frontend reads, *)
(* those on their way to it, and the one under way.                        *)
(***************************************************************************)
InHand(f) == f \in {"looking", "CTRL_SENDING_FILES_FILE", "CTRL_SENDING_LOG_FILE"}

PkgInHand(f, inc, q) ==
    IF f = "CTRL_SENDING_LOG_FILE" /\ q[1].type = "CTRL_DATA" THEN q[1].arg.pkg ELSE inc.pkg

\* ix: where the logs in q are.
LogsAre(q, ix, k, first, tr) ==
    /\ ix \in [1 .. k -> 1 .. Len(q)]
    /\ \A j \in 1 .. k : IsLog(q, ix[j]) /\ q[ix[j]].arg = tr[first + j]
    /\ \A j, h \in 1 .. k : j < h => ix[j] < ix[h]
    /\ \A i \in 1 .. Len(q) : IsLog(q, i) => \E j \in 1 .. k : ix[j] = i

AtHand(f)   == IF InHand(f) THEN 1 ELSE 0
UnderWay(l) == IF l = NoLog THEN 0 ELSE 1

AccountWith(k, ix, q, f, inc, stored, open, tr) ==
    /\ LogsAre(q, ix, k, Len(stored) + AtHand(f), tr)
    /\ Len(tr) = Len(stored) + AtHand(f) + k + UnderWay(open)
    /\ \A i \in 1 .. Len(stored) : stored[i].pkg = tr[i]
    /\ InHand(f) => PkgInHand(f, inc, q) = tr[Len(stored) + 1]
    /\ open # NoLog => open.pkg = tr[Len(tr)]

Account(q, f, inc, stored, open, tr) ==
    \E k \in Nat : \E ix \in [1 .. k -> 1 .. Len(q)] :
        AccountWith(k, ix, q, f, inc, stored, open, tr)

Complete ==
    backend.end = "exited" => Account(Queue, frontend, incoming, book, backend.logs, tries)

Inductive == Typed /\ Control /\ Transfers /\ Complete

-----------------------------------------------------------------------------
(***************************************************************************)
(* Lemmas about queues.                                                    *)
(***************************************************************************)

LEMMA Joined ==
    ASSUME NEW q \in Seq(Messages), NEW r \in Seq(Messages)
    PROVE  /\ q \o r \in Seq(Messages)
           /\ Len(q \o r) = Len(q) + Len(r)
           /\ \A i \in 1 .. Len(q) : (q \o r)[i] = q[i]
           /\ \A i \in 1 .. Len(r) : (q \o r)[Len(q) + i] = r[i]
           /\ \A i \in 1 .. Len(q) + Len(r) : i > Len(q) => (q \o r)[i] = r[i - Len(q)]
<1>1. /\ q \o r \in Seq(Messages)
      /\ Len(q \o r) = Len(q) + Len(r)
      /\ \A i \in 1 .. Len(q) + Len(r) : (q \o r)[i] = IF i <= Len(q) THEN q[i] ELSE r[i - Len(q)]
  BY ConcatProperties
<1>2. Len(q) \in Nat /\ Len(r) \in Nat
  BY LenProperties
<1>. QED  BY <1>1, <1>2

\* What holds of a message in a queue holds of it in another one.
LEMMA FramedElsewhere ==
    ASSUME NEW q, NEW s, NEW n \in Nat, NEW i \in Nat, Len(q) \in Nat, Len(s) \in Nat,
           FramedAt(q, n), s[i] = q[n], s[i + 1] = q[n + 1],
           IsLog(q, n) /\ q[n + 1].arg.find = "yes" /\ i + 3 <= Len(s) =>
             n + 3 <= Len(q) /\ s[i + 3] = q[n + 3]
    PROVE  FramedAt(s, i)
BY DEF FramedAt, IsLog

LEMMA WholeElsewhere ==
    ASSUME NEW q, NEW s, NEW n \in Nat, NEW i \in Nat, Len(q) \in Nat, Len(s) \in Nat,
           WholeAt(q, n), s[i] = q[n], Len(q) - n <= Len(s) - i,
           n + 1 <= Len(q) => s[i + 1] = q[n + 1]
    PROVE  WholeAt(s, i)
<1>1. IsLog(q, n) => s[i + 1] = q[n + 1]
  BY DEF WholeAt, IsLog, Sending
<1>. QED  BY SMTT(30), <1>1 DEF WholeAt, IsLog

\* A queue and the messages after it, where these begin a message of their own.
LEMMA FramedJoined ==
    ASSUME NEW q \in Seq(Messages), NEW r \in Seq(Messages),
           Framed(q), Whole(q), Framed(r), r # <<>> => r[1].type \notin {"CTRL_DATA", "CTRL_DATA_SENT"}
    PROVE  Framed(q \o r)
<1>. DEFINE j == q \o r
<1>1. /\ Len(q) \in Nat /\ Len(r) \in Nat /\ Len(j) = Len(q) + Len(r)
      /\ \A i \in 1 .. Len(q) : j[i] = q[i]
      /\ \A i \in 1 .. Len(j) : i > Len(q) => j[i] = r[i - Len(q)]
  BY Joined, LenProperties
<1>. HIDE DEF j
<1>2. SUFFICES ASSUME NEW i \in 1 .. Len(j) - 1 PROVE FramedAt(j, i)
  BY DEF Framed, j
<1>3. CASE i < Len(q)
  <2>1. i \in 1 .. Len(q) - 1 /\ j[i] = q[i] /\ j[i + 1] = q[i + 1]
    BY <1>1, <1>3
  <2>2. FramedAt(q, i) /\ WholeAt(q, i)
    BY <2>1, <1>1 DEF Framed, Whole
  <2>3. IsLog(q, i) /\ q[i + 1].arg.find = "yes" => i + 3 <= Len(q) /\ j[i + 3] = q[i + 3]
    BY <2>1, <2>2, <1>1 DEF WholeAt
  <2>. QED  BY <2>1, <2>2, <2>3, <1>1, FramedElsewhere
<1>4. CASE i = Len(q)
  <2>1. j[i] = q[i] /\ j[i + 1] = r[1] /\ r # <<>>
    BY <1>1, <1>4
  <2>2. q[i].type \notin Sending /\ q[i].type # "CTRL_DATA"
    BY <1>1, <1>4 DEF Whole, WholeAt
  <2>. QED  BY <2>1, <2>2 DEF FramedAt, IsLog, Sending
<1>5. CASE i > Len(q)
  <2>. DEFINE n == i - Len(q)
  <2>1. n \in 1 .. Len(r) - 1 /\ j[i] = r[n] /\ j[i + 1] = r[n + 1]
    BY <1>1, <1>5
  <2>2. i + 3 <= Len(j) => n + 3 <= Len(r) /\ j[i + 3] = r[n + 3]
    BY <1>1, <1>5
  <2>3. FramedAt(r, n) /\ n \in Nat /\ i \in Nat /\ Len(j) \in Nat
    BY <2>1, <1>1 DEF Framed
  <2>. HIDE DEF n
  <2>. QED  BY <2>1, <2>2, <2>3, <1>1, FramedElsewhere
<1>. QED  BY <1>1, <1>3, <1>4, <1>5

LEMMA WholeJoined ==
    ASSUME NEW q \in Seq(Messages), NEW r \in Seq(Messages), Whole(q), Whole(r)
    PROVE  Whole(q \o r)
<1>. DEFINE j == q \o r
<1>1. /\ Len(q) \in Nat /\ Len(r) \in Nat /\ Len(j) = Len(q) + Len(r)
      /\ \A i \in 1 .. Len(q) : j[i] = q[i]
      /\ \A i \in 1 .. Len(j) : i > Len(q) => j[i] = r[i - Len(q)]
  BY Joined, LenProperties
<1>. HIDE DEF j
<1>2. SUFFICES ASSUME NEW i \in 1 .. Len(j) PROVE WholeAt(j, i)
  BY DEF Whole, j
<1>3. CASE i <= Len(q)
  <2>1. i \in 1 .. Len(q) /\ j[i] = q[i] /\ WholeAt(q, i)
    BY <1>1, <1>3 DEF Whole
  <2>2. i + 1 <= Len(q) => j[i + 1] = q[i + 1]
    BY <1>1, <2>1
  <2>. QED  BY <1>1, <2>1, <2>2, WholeElsewhere
<1>4. CASE i > Len(q)
  <2>. DEFINE n == i - Len(q)
  <2>1. n \in 1 .. Len(r) /\ j[i] = r[n] /\ WholeAt(r, n)
    BY <1>1, <1>4 DEF Whole
  <2>2. n + 1 <= Len(r) => j[i + 1] = r[n + 1]
    BY <1>1, <2>1
  <2>3. Len(r) - n = Len(j) - i
    BY <1>1
  <2>. HIDE DEF n
  <2>. QED  BY <1>1, <2>1, <2>2, <2>3, WholeElsewhere
<1>. QED  BY <1>1, <1>3, <1>4

LEMMA TailOf ==
    ASSUME NEW q \in Seq(Messages), q # <<>>
    PROVE  /\ Tail(q) \in Seq(Messages) /\ Len(q) \in Nat \ {0}
           /\ Len(Tail(q)) = Len(q) - 1 /\ Head(q) = q[1] /\ q[1] \in Messages
           /\ \A i \in 1 .. Len(q) - 1 : Tail(q)[i] = q[i + 1]
<1>1. Len(q) \in Nat \ {0}
  BY EmptySeq, LenProperties
<1>2. q[1] \in Messages
  BY <1>1, ElementOfSeq
<1>. QED  BY <1>1, <1>2, HeadTailProperties

LEMMA FramedTail ==
    ASSUME NEW q \in Seq(Messages), q # <<>>
    PROVE  (Framed(q) => Framed(Tail(q))) /\ (Whole(q) => Whole(Tail(q)))
<1>. DEFINE s == Tail(q)
<1>1. /\ Len(q) \in Nat \ {0} /\ Len(s) = Len(q) - 1
      /\ \A i \in 1 .. Len(s) : s[i] = q[i + 1]
  BY TailOf
<1>. HIDE DEF s
<1>2. ASSUME Framed(q) PROVE Framed(s)
  <2>1. SUFFICES ASSUME NEW i \in 1 .. Len(s) - 1 PROVE FramedAt(s, i)
    BY DEF Framed
  <2>. DEFINE n == i + 1
  <2>2. n \in 1 .. Len(q) - 1 /\ s[i] = q[n] /\ s[i + 1] = q[n + 1] /\ FramedAt(q, n)
    BY <1>1, <1>2 DEF Framed
  <2>3. i + 3 <= Len(s) => n + 3 <= Len(q) /\ s[i + 3] = q[n + 3]
    BY <1>1
  <2>4. n \in Nat /\ i \in Nat /\ Len(s) \in Nat
    BY <1>1
  <2>. HIDE DEF n
  <2>. QED  BY <1>1, <2>2, <2>3, <2>4, FramedElsewhere
<1>3. ASSUME Whole(q) PROVE Whole(s)
  <2>1. SUFFICES ASSUME NEW i \in 1 .. Len(s) PROVE WholeAt(s, i)
    BY DEF Whole
  <2>. DEFINE n == i + 1
  <2>2. n \in 1 .. Len(q) /\ s[i] = q[n] /\ WholeAt(q, n) /\ Len(q) - n = Len(s) - i
    BY <1>1, <1>3 DEF Whole
  <2>3. n + 1 <= Len(q) => s[i + 1] = q[n + 1]
    BY <1>1
  <2>4. n \in Nat /\ i \in Nat /\ Len(s) \in Nat /\ Len(q) \in Nat /\ Len(q) - n <= Len(s) - i
    BY <1>1, <2>2
  <2>5. WholeAt(q, n) /\ s[i] = q[n] /\ (n + 1 <= Len(q) => s[i + 1] = q[n + 1])
    BY <2>2, <2>3
  <2>. HIDE DEF n
  <2>. QED  BY <2>4, <2>5, WholeElsewhere
<1>. QED  BY <1>2, <1>3 DEF s

LEMMA FramedPrefix ==
    ASSUME NEW q \in Seq(Messages), NEW r \in Seq(Messages), Framed(q \o r)
    PROVE  Framed(q)
<1>. DEFINE j == q \o r
<1>1. /\ Len(q) \in Nat /\ Len(r) \in Nat /\ Len(j) = Len(q) + Len(r)
      /\ \A i \in 1 .. Len(q) : j[i] = q[i]
  BY Joined, LenProperties
<1>2. \A i \in 1 .. Len(j) - 1 : FramedAt(j, i)
  BY DEF Framed
<1>. HIDE DEF j
<1>3. SUFFICES ASSUME NEW i \in 1 .. Len(q) - 1 PROVE FramedAt(q, i)
  BY DEF Framed
<1>4. q[i] = j[i] /\ q[i + 1] = j[i + 1] /\ FramedAt(j, i)
  BY <1>1, <1>2
<1>5. i + 3 <= Len(q) => i + 3 <= Len(j) /\ q[i + 3] = j[i + 3]
  BY <1>1
<1>. QED  BY <1>1, <1>4, <1>5, FramedElsewhere

LEMMA FitsJoined ==
    ASSUME NEW q \in Seq(Messages), NEW r \in Seq(Messages), NEW f, NEW inc,
           Fits(f, inc, q), Awaited(f, inc, q)
    PROVE  Fits(f, inc, q \o r) /\ Awaited(f, inc, q \o r)
<1>. DEFINE j == q \o r
<1>1. /\ Len(q) \in Nat /\ Len(r) \in Nat /\ Len(j) = Len(q) + Len(r)
      /\ \A i \in 1 .. Len(q) : j[i] = q[i]
  BY Joined, LenProperties
<1>2. q = <<>> <=> Len(q) = 0
  BY EmptySeq
<1>3. j # <<>> => Len(j) # 0
  BY Joined, EmptySeq
<1>4. j = <<>> => Len(j) = 0
  BY EmptySeq
<1>. HIDE DEF j
<1>5. CASE q = <<>>
  <2>1. f \notin {"looking"} \cup Sending
    BY <1>5 DEF Awaited
  <2>2. f # "looking" /\ f # "CTRL_SENDING_FILES_FILE" /\ f # "CTRL_SENDING_LOG_FILE" /\ f \notin Sending
    BY <2>1 DEF Sending
  <2>. QED  BY <2>2 DEF Fits, Awaited, j
<1>6. CASE q # <<>>
  <2>1. j # <<>> /\ j[1] = q[1] /\ (Len(q) >= 2 => j[2] = q[2]) /\ (Len(q) >= 3 => j[3] = q[3])
    BY <1>1, <1>2, <1>4, <1>6
  <2>. QED  BY <1>1, <1>6, <2>1 DEF Fits, Awaited, DataIsNext, EndIsNext, j
<1>. QED  BY <1>5, <1>6

-----------------------------------------------------------------------------
(***************************************************************************)
(* Lemmas about the tries of a run.                                        *)
(***************************************************************************)
NoLogIn(r) == \A i \in 1 .. Len(r) : ~IsLog(r, i)

LEMMA PkgJoined ==
    ASSUME NEW q \in Seq(Messages), NEW r \in Seq(Messages), NEW f, NEW inc,
           Awaited(f, inc, q)
    PROVE  PkgInHand(f, inc, q \o r) = PkgInHand(f, inc, q)
<1>1. Len(q) \in Nat /\ \A i \in 1 .. Len(q) : (q \o r)[i] = q[i]
  BY Joined, LenProperties
<1>2. q # <<>> => Len(q) # 0
  BY EmptySeq
<1>. QED  BY <1>1, <1>2 DEF PkgInHand, Awaited, Sending

\* Nothing changes for the messages that are there.
LEMMA AccountJoined ==
    ASSUME NEW q \in Seq(Messages), NEW r \in Seq(Messages), NEW f, NEW inc, NEW stored \in Seq(Entry),
           NEW open, NEW tr \in Seq(Packages),
           Awaited(f, inc, q), NoLogIn(r), Account(q, f, inc, stored, open, tr)
    PROVE  Account(q \o r, f, inc, stored, open, tr)
<1>. DEFINE j == q \o r
            n == Len(stored) + AtHand(f)
<1>1. /\ Len(q) \in Nat /\ Len(r) \in Nat /\ Len(j) = Len(q) + Len(r)
      /\ \A i \in 1 .. Len(q) : j[i] = q[i]
      /\ \A i \in 1 .. Len(j) : i > Len(q) => j[i] = r[i - Len(q)]
  BY Joined, LenProperties
<1>2. PkgInHand(f, inc, j) = PkgInHand(f, inc, q)
  BY PkgJoined
<1>2a. PICK k \in Nat : \E ix \in [1 .. k -> 1 .. Len(q)] :
         AccountWith(k, ix, q, f, inc, stored, open, tr)
  BY DEF Account
<1>2b. PICK ix \in [1 .. k -> 1 .. Len(q)] : AccountWith(k, ix, q, f, inc, stored, open, tr)
  BY <1>2a
<1>3. /\ LogsAre(q, ix, k, n, tr)
      /\ Len(tr) = n + k + UnderWay(open)
      /\ \A i \in 1 .. Len(stored) : stored[i].pkg = tr[i]
      /\ InHand(f) => PkgInHand(f, inc, q) = tr[Len(stored) + 1]
      /\ open # NoLog => open.pkg = tr[Len(tr)]
  BY <1>2b DEF AccountWith
<1>. HIDE DEF j, n
<1>4. ix \in [1 .. k -> 1 .. Len(j)]
  BY <1>1
<1>5. \A i \in 1 .. k : ix[i] \in 1 .. Len(q) /\ j[ix[i]] = q[ix[i]]
  BY <1>1
<1>6. \A i \in 1 .. Len(j) : IsLog(j, i) => i \in 1 .. Len(q) /\ IsLog(q, i)
  <2>1. ASSUME NEW i \in 1 .. Len(j), i > Len(q) PROVE ~IsLog(j, i)
    <3>1. i - Len(q) \in 1 .. Len(r) /\ j[i] = r[i - Len(q)]
      BY <1>1, <2>1
    <3>. QED  BY <3>1 DEF NoLogIn, IsLog
  <2>. QED  BY <1>1, <2>1 DEF IsLog
<1>7. LogsAre(j, ix, k, n, tr)
  BY <1>3, <1>4, <1>5, <1>6 DEF LogsAre, IsLog
<1>. QED  BY <1>2, <1>3, <1>4, <1>7 DEF Account, AccountWith, j, n

\* The log of the try under way is sent.
LEMMA AccountFinished ==
    ASSUME NEW q \in Seq(Messages), NEW r \in Seq(Messages), NEW f, NEW inc, NEW stored \in Seq(Entry),
           NEW open, NEW tr \in Seq(Packages),
           Awaited(f, inc, q), open # NoLog, r # <<>>, IsLog(r, 1), r[1].arg = open.pkg,
           \A i \in 2 .. Len(r) : ~IsLog(r, i), Account(q, f, inc, stored, open, tr)
    PROVE  Account(q \o r, f, inc, stored, NoLog, tr)
<1>. DEFINE j == q \o r
            n == Len(stored) + AtHand(f)
<1>1. /\ Len(q) \in Nat /\ Len(r) \in Nat /\ Len(j) = Len(q) + Len(r) /\ Len(r) # 0
      /\ \A i \in 1 .. Len(q) : j[i] = q[i]
      /\ \A i \in 1 .. Len(j) : i > Len(q) => j[i] = r[i - Len(q)]
  BY Joined, LenProperties, EmptySeq
<1>2. PkgInHand(f, inc, j) = PkgInHand(f, inc, q)
  BY PkgJoined
<1>2a. PICK k \in Nat : \E ix \in [1 .. k -> 1 .. Len(q)] :
         AccountWith(k, ix, q, f, inc, stored, open, tr)
  BY DEF Account
<1>2b. PICK ix \in [1 .. k -> 1 .. Len(q)] : AccountWith(k, ix, q, f, inc, stored, open, tr)
  BY <1>2a
<1>3. /\ LogsAre(q, ix, k, n, tr)
      /\ Len(tr) = n + k + UnderWay(open)
      /\ \A i \in 1 .. Len(stored) : stored[i].pkg = tr[i]
      /\ InHand(f) => PkgInHand(f, inc, q) = tr[Len(stored) + 1]
      /\ open # NoLog => open.pkg = tr[Len(tr)]
  BY <1>2b DEF AccountWith
<1>4. n \in Nat
  BY LenProperties DEF AtHand
<1>. HIDE DEF j, n
<1>. DEFINE ox == [i \in 1 .. k + 1 |-> IF i = k + 1 THEN Len(q) + 1 ELSE ix[i]]
<1>5. Len(tr) = n + k + 1 /\ UnderWay(NoLog) = 0
  BY <1>3 DEF UnderWay
<1>6. ox \in [1 .. k + 1 -> 1 .. Len(j)]
  BY <1>1
<1>7. /\ \A i \in 1 .. k : ox[i] = ix[i] /\ ix[i] \in 1 .. Len(q) /\ j[ix[i]] = q[ix[i]]
      /\ ox[k + 1] = Len(q) + 1 /\ j[Len(q) + 1] = r[1]
  <2>1. \A i \in 1 .. k : ix[i] \in 1 .. Len(q)
    OBVIOUS
  <2>2. \A i \in 1 .. k : j[ix[i]] = q[ix[i]]
    BY <1>1, <2>1
  <2>3. \A i \in 1 .. k : i \in 1 .. k + 1 /\ i # k + 1
    OBVIOUS
  <2>4. Len(q) + 1 \in 1 .. Len(j) /\ Len(q) + 1 > Len(q) /\ Len(q) + 1 - Len(q) = 1
    BY <1>1
  <2>5. j[Len(q) + 1] = r[1]
    BY <1>1, <2>4
  <2>. QED  BY <2>1, <2>2, <2>3, <2>5
<1>8. \A i \in 1 .. Len(j) : IsLog(j, i) => i = Len(q) + 1 \/ (i \in 1 .. Len(q) /\ IsLog(q, i))
  <2>1. ASSUME NEW i \in 1 .. Len(j), i > Len(q) + 1 PROVE ~IsLog(j, i)
    <3>1. i - Len(q) \in 2 .. Len(r) /\ j[i] = r[i - Len(q)]
      BY <1>1, <2>1
    <3>. QED  BY <3>1 DEF IsLog
  <2>2. \A i \in 1 .. Len(q) : IsLog(j, i) => IsLog(q, i)
    BY <1>1 DEF IsLog
  <2>3. \A i \in 1 .. Len(j) : i > Len(q) + 1 \/ i = Len(q) + 1 \/ i \in 1 .. Len(q)
    BY <1>1
  <2>. QED  BY <2>1, <2>2, <2>3
<1>. HIDE DEF ox
<1>9. LogsAre(j, ox, k + 1, n, tr)
  <2>1. \A i \in 1 .. k + 1 : IsLog(j, ox[i]) /\ j[ox[i]].arg = tr[n + i]
    <3>1. Len(tr) = n + (k + 1)
      BY <1>4, <1>5
    <3>2. IsLog(j, ox[k + 1]) /\ j[ox[k + 1]].arg = tr[n + (k + 1)]
      BY <1>3, <3>1, <1>7 DEF IsLog
    <3>3. \A i \in 1 .. k : IsLog(q, ix[i]) /\ q[ix[i]].arg = tr[n + i]
      BY <1>3 DEF LogsAre
    <3>4. \A i \in 1 .. k : IsLog(j, ox[i]) /\ j[ox[i]].arg = tr[n + i]
      BY ZenonT(60), <1>7, <3>3 DEF IsLog
    <3>5. \A i \in 1 .. k + 1 : i = k + 1 \/ i \in 1 .. k
      OBVIOUS
    <3>. QED  BY <3>2, <3>4, <3>5
  <2>2. \A i, h \in 1 .. k + 1 : i < h => ox[i] < ox[h]
    <3>1. \A i, h \in 1 .. k : i < h => ox[i] < ox[h]
      BY <1>3, <1>7 DEF LogsAre
    <3>2. \A i \in 1 .. k : ox[i] < ox[k + 1]
      <4>1. \A i \in 1 .. k : ox[i] \in 1 .. Len(q)
        BY <1>7
      <4>. QED  BY <1>1, <1>7, <4>1
    <3>3. \A i, h \in 1 .. k + 1 : i < h => i \in 1 .. k /\ (h = k + 1 \/ h \in 1 .. k)
      OBVIOUS
    <3>. QED  BY <3>1, <3>2, <3>3
  <2>3. \A i \in 1 .. Len(j) : IsLog(j, i) => \E h \in 1 .. k + 1 : ox[h] = i
    <3>1. ASSUME NEW i \in 1 .. Len(j), IsLog(j, i) PROVE \E h \in 1 .. k + 1 : ox[h] = i
      <4>1. CASE i = Len(q) + 1
        BY <1>7, <4>1
      <4>2. CASE i \in 1 .. Len(q) /\ IsLog(q, i)
        <5>1. PICK h \in 1 .. k : ix[h] = i
          BY <1>3, <4>2 DEF LogsAre
        <5>. QED  BY <5>1, <1>7
      <4>. QED  BY <1>8, <3>1, <4>1, <4>2
    <3>. QED  BY <3>1
  <2>. QED  BY <1>6, <2>1, <2>2, <2>3 DEF LogsAre
<1>10. Len(tr) = n + (k + 1) + UnderWay(NoLog) /\ k + 1 \in Nat
  BY <1>4, <1>5
<1>. QED  BY <1>2, <1>3, <1>6, <1>9, <1>10 DEF Account, AccountWith, j, n

\* A try begins.
LEMMA AccountBegun ==
    ASSUME NEW q \in Seq(Messages), NEW f, NEW inc, NEW stored \in Seq(Entry),
           NEW open \in Log, NEW tr \in Seq(Packages), Account(q, f, inc, stored, NoLog, tr)
    PROVE  Account(q, f, inc, stored, open, Append(tr, open.pkg))
<1>. DEFINE n == Len(stored) + AtHand(f)
            longer == Append(tr, open.pkg)
<1>0. open.pkg \in Packages /\ 0 \notin Packages /\ open # NoLog
  BY PackageAssumption DEF Log, NoLog, Packages
<1>1. /\ Len(tr) \in Nat /\ Len(longer) = Len(tr) + 1 /\ longer[Len(longer)] = open.pkg
      /\ \A i \in 1 .. Len(tr) : longer[i] = tr[i]
  BY <1>0, AppendProperties, LenProperties
<1>2. n \in Nat /\ Len(stored) \in Nat /\ Len(stored) + AtHand(f) = n
  BY LenProperties DEF AtHand
<1>2a. PICK k \in Nat : \E ix \in [1 .. k -> 1 .. Len(q)] :
         AccountWith(k, ix, q, f, inc, stored, NoLog, tr)
  BY DEF Account
<1>2b. PICK ix \in [1 .. k -> 1 .. Len(q)] : AccountWith(k, ix, q, f, inc, stored, NoLog, tr)
  BY <1>2a
<1>3. /\ LogsAre(q, ix, k, n, tr)
      /\ Len(tr) = n + k + UnderWay(NoLog)
      /\ \A i \in 1 .. Len(stored) : stored[i].pkg = tr[i]
      /\ InHand(f) => PkgInHand(f, inc, q) = tr[Len(stored) + 1]
  BY <1>2b DEF AccountWith
<1>4. UnderWay(NoLog) = 0 /\ UnderWay(open) = 1
  BY <1>0 DEF UnderWay
<1>5. InHand(f) => n = Len(stored) + 1
  BY DEF AtHand
<1>6. Len(stored) <= n
  BY <1>2 DEF AtHand
<1>. HIDE DEF n, longer
<1>7. LogsAre(q, ix, k, n, longer)
  <2>1. \A j \in 1 .. k : n + j \in 1 .. Len(tr)
    BY <1>2, <1>3, <1>4
  <2>. QED  BY <1>1, <1>3, <2>1 DEF LogsAre
<1>8. Len(longer) = n + k + UnderWay(open)
  BY <1>1, <1>2, <1>3, <1>4
<1>9. \A i \in 1 .. Len(stored) : i \in 1 .. Len(tr)
  BY <1>2, <1>3, <1>4, <1>6
<1>10. InHand(f) => Len(stored) + 1 \in 1 .. Len(tr)
  BY <1>2, <1>3, <1>4, <1>5
<1>. QED  BY <1>1, <1>2, <1>3, <1>7, <1>8, <1>9, <1>10 DEF Account, AccountWith, longer, n

\* The first message is taken from a queue; it is no log.
LEMMA LogsDropped ==
    ASSUME NEW q \in Seq(Messages), q # <<>>, ~IsLog(q, 1), NEW k \in Nat, NEW n \in Nat, NEW tr,
           NEW ix \in [1 .. k -> 1 .. Len(q)], LogsAre(q, ix, k, n, tr)
    PROVE  \E ox \in [1 .. k -> 1 .. Len(Tail(q))] : LogsAre(Tail(q), ox, k, n, tr)
<1>. DEFINE s == Tail(q)
            ox == [i \in 1 .. k |-> ix[i] - 1]
<1>1. /\ Len(q) \in Nat \ {0} /\ Len(s) = Len(q) - 1
      /\ \A i \in 1 .. Len(s) : s[i] = q[i + 1]
  BY TailOf
<1>2. \A i \in 1 .. k : IsLog(q, ix[i]) /\ q[ix[i]].arg = tr[n + i]
  BY DEF LogsAre
<1>3. \A i \in 1 .. k : ix[i] \in 2 .. Len(q)
  <2>1. \A i \in 1 .. k : ix[i] \in 1 .. Len(q) /\ ix[i] # 1
    BY <1>2
  <2>. QED  BY <1>1, <2>1
<1>. HIDE DEF s
<1>4. ox \in [1 .. k -> 1 .. Len(s)]
  BY <1>1, <1>3
<1>5. \A i \in 1 .. k : ox[i] = ix[i] - 1
  OBVIOUS
<1>. HIDE DEF ox
<1>6. \A i \in 1 .. k : s[ox[i]] = q[ix[i]]
  <2>1. \A i \in 1 .. k : ox[i] \in 1 .. Len(s) /\ ox[i] + 1 = ix[i]
    BY <1>3, <1>4, <1>5
  <2>. QED  BY <1>1, <2>1
<1>7. \A i, h \in 1 .. k : i < h => ox[i] < ox[h]
  <2>1. \A i, h \in 1 .. k : i < h => ix[i] < ix[h]
    BY DEF LogsAre
  <2>. QED  BY <1>3, <1>5, <2>1
<1>8. \A i \in 1 .. Len(s) : IsLog(s, i) => \E h \in 1 .. k : ox[h] = i
  <2>1. ASSUME NEW i \in 1 .. Len(s), IsLog(s, i) PROVE \E h \in 1 .. k : ox[h] = i
    <3>1. i + 1 \in 1 .. Len(q) /\ IsLog(q, i + 1)
      BY <1>1, <2>1 DEF IsLog
    <3>2. PICK h \in 1 .. k : ix[h] = i + 1
      BY <3>1 DEF LogsAre
    <3>. QED  BY <3>2, <1>5
  <2>. QED  BY <2>1
<1>9. LogsAre(s, ox, k, n, tr)
  BY <1>2, <1>4, <1>6, <1>7, <1>8 DEF LogsAre, IsLog
<1>. QED  BY <1>4, <1>9 DEF s

\* It is one.
LEMMA LogsTaken ==
    ASSUME NEW q \in Seq(Messages), q # <<>>, IsLog(q, 1), NEW k \in Nat, NEW n \in Nat, NEW tr,
           NEW ix \in [1 .. k -> 1 .. Len(q)], LogsAre(q, ix, k, n, tr)
    PROVE  /\ k - 1 \in Nat /\ q[1].arg = tr[n + 1]
           /\ \E ox \in [1 .. k - 1 -> 1 .. Len(Tail(q))] : LogsAre(Tail(q), ox, k - 1, n + 1, tr)
<1>. DEFINE s == Tail(q)
            ox == [i \in 1 .. k - 1 |-> ix[i + 1] - 1]
<1>1. /\ Len(q) \in Nat \ {0} /\ Len(s) = Len(q) - 1
      /\ \A i \in 1 .. Len(s) : s[i] = q[i + 1]
  BY TailOf
<1>2. /\ \A i \in 1 .. k : ix[i] \in 1 .. Len(q) /\ IsLog(q, ix[i]) /\ q[ix[i]].arg = tr[n + i]
      /\ \A i, h \in 1 .. k : i < h => ix[i] < ix[h]
      /\ \A i \in 1 .. Len(q) : IsLog(q, i) => \E h \in 1 .. k : ix[h] = i
  BY DEF LogsAre
<1>3. PICK first \in 1 .. k : ix[first] = 1
  BY SMTT(40), <1>1, <1>2
<1>4. first = 1
  <2>1. SUFFICES ASSUME first # 1 PROVE FALSE
    OBVIOUS
  <2>2. 1 \in 1 .. k /\ 1 < first
    BY <2>1
  <2>3. ix[1] < ix[first] /\ ix[1] \in 1 .. Len(q)
    BY <1>2, <2>2
  <2>. QED  BY <1>1, <1>3, <2>3
<1>5. k - 1 \in Nat /\ q[1].arg = tr[n + 1]
  BY <1>2, <1>3, <1>4
<1>6. \A i \in 1 .. k - 1 : i + 1 \in 1 .. k /\ ix[i + 1] \in 2 .. Len(q)
  <2>1. \A i \in 1 .. k - 1 : i + 1 \in 1 .. k /\ 1 \in 1 .. k /\ 1 < i + 1
    BY <1>5
  <2>2. \A i \in 1 .. k - 1 : ix[i + 1] \in 1 .. Len(q) /\ ix[1] < ix[i + 1]
    BY <1>2, <2>1
  <2>. QED  BY <1>1, <1>3, <1>4, <2>1, <2>2
<1>. HIDE DEF s
<1>7. ox \in [1 .. k - 1 -> 1 .. Len(s)]
  BY <1>1, <1>6
<1>8. \A i \in 1 .. k - 1 : ox[i] = ix[i + 1] - 1
  OBVIOUS
<1>. HIDE DEF ox
<1>9. \A i \in 1 .. k - 1 : s[ox[i]] = q[ix[i + 1]]
  <2>1. ASSUME NEW i \in 1 .. k - 1 PROVE ox[i] \in 1 .. Len(s) /\ ox[i] + 1 = ix[i + 1]
    <3>1. ox[i] \in 1 .. Len(s)
      BY <1>7
    <3>2. ix[i + 1] \in 2 .. Len(q) /\ ox[i] = ix[i + 1] - 1
      BY <1>6, <1>8
    <3>. QED  BY <1>1, <3>1, <3>2
  <2>. QED  BY <1>1, <2>1
<1>10. \A i \in 1 .. k - 1 : IsLog(s, ox[i]) /\ s[ox[i]].arg = tr[n + 1 + i]
  <2>1. \A i \in 1 .. k - 1 : n + (i + 1) = n + 1 + i
    OBVIOUS
  <2>2. \A i \in 1 .. k - 1 : IsLog(q, ix[i + 1]) /\ q[ix[i + 1]].arg = tr[n + (i + 1)]
    BY <1>2, <1>6
  <2>. QED  BY <1>9, <2>1, <2>2 DEF IsLog
<1>11. \A i, h \in 1 .. k - 1 : i < h => ox[i] < ox[h]
  <2>1. \A i, h \in 1 .. k - 1 : i < h => ix[i + 1] < ix[h + 1]
    <3>1. \A i, h \in 1 .. k - 1 : i < h => i + 1 < h + 1
      OBVIOUS
    <3>. QED  BY <1>2, <1>6, <3>1
  <2>2. \A i \in 1 .. k - 1 : ix[i + 1] \in Int /\ ox[i] = ix[i + 1] - 1
    BY <1>6, <1>8
  <2>3. \A i, h \in 1 .. k - 1 : ix[i + 1] < ix[h + 1] => ix[i + 1] - 1 < ix[h + 1] - 1
    BY <2>2
  <2>. QED  BY <2>1, <2>2, <2>3
<1>12. \A i \in 1 .. Len(s) : IsLog(s, i) => \E h \in 1 .. k - 1 : ox[h] = i
  <2>1. ASSUME NEW i \in 1 .. Len(s), IsLog(s, i) PROVE \E h \in 1 .. k - 1 : ox[h] = i
    <3>1. i + 1 \in 1 .. Len(q) /\ IsLog(q, i + 1)
      BY <1>1, <2>1 DEF IsLog
    <3>2. PICK h \in 1 .. k : ix[h] = i + 1
      BY <1>2, <3>1
    <3>3. h # 1
      BY <1>3, <1>4, <3>2
    <3>4. h - 1 \in 1 .. k - 1 /\ (h - 1) + 1 = h
      BY <3>3
    <3>5. ox[h - 1] = i
      BY <1>8, <3>2, <3>4
    <3>. QED  BY <3>4, <3>5
  <2>. QED  BY <2>1
<1>13. LogsAre(s, ox, k - 1, n + 1, tr)
  BY <1>7, <1>10, <1>11, <1>12 DEF LogsAre
<1>. QED  BY <1>5, <1>7, <1>13 DEF s

\* The frontend reads a message that is no log, and keeps in hand what it has.
LEMMA AccountDropped ==
    ASSUME NEW q \in Seq(Messages), q # <<>>, ~IsLog(q, 1), NEW f, NEW inc, NEW g, NEW jnc,
           NEW stored \in Seq(Entry), NEW open, NEW tr \in Seq(Packages),
           InHand(g) = InHand(f),
           InHand(f) => PkgInHand(g, jnc, Tail(q)) = PkgInHand(f, inc, q),
           Account(q, f, inc, stored, open, tr)
    PROVE  Account(Tail(q), g, jnc, stored, open, tr)
<1>1. PICK k \in Nat : \E ix \in [1 .. k -> 1 .. Len(q)] :
         AccountWith(k, ix, q, f, inc, stored, open, tr)
  BY DEF Account
<1>2. PICK ix \in [1 .. k -> 1 .. Len(q)] : AccountWith(k, ix, q, f, inc, stored, open, tr)
  BY <1>1
<1>3. AtHand(f) = AtHand(g) /\ Len(stored) + AtHand(f) \in Nat
  BY LenProperties DEF AtHand
<1>4. PICK ox \in [1 .. k -> 1 .. Len(Tail(q))] :
         LogsAre(Tail(q), ox, k, Len(stored) + AtHand(f), tr)
  BY <1>2, <1>3, LogsDropped DEF AccountWith
<1>5. AccountWith(k, ox, Tail(q), g, jnc, stored, open, tr)
  BY <1>2, <1>3, <1>4 DEF AccountWith
<1>. QED  BY <1>5 DEF Account

\* The frontend begins to read a log.
LEMMA AccountTaken ==
    ASSUME NEW q \in Seq(Messages), q # <<>>, IsLog(q, 1), NEW f, NEW inc, NEW g, NEW jnc,
           NEW stored \in Seq(Entry), NEW open, NEW tr \in Seq(Packages),
           ~InHand(f), InHand(g), PkgInHand(g, jnc, Tail(q)) = q[1].arg,
           Account(q, f, inc, stored, open, tr)
    PROVE  Account(Tail(q), g, jnc, stored, open, tr)
<1>1. PICK k \in Nat : \E ix \in [1 .. k -> 1 .. Len(q)] :
         AccountWith(k, ix, q, f, inc, stored, open, tr)
  BY DEF Account
<1>2. PICK ix \in [1 .. k -> 1 .. Len(q)] : AccountWith(k, ix, q, f, inc, stored, open, tr)
  BY <1>1
<1>3. AtHand(f) = 0 /\ AtHand(g) = 1 /\ Len(stored) \in Nat /\ Len(stored) + 0 = Len(stored)
  BY LenProperties DEF AtHand
<1>4. LogsAre(q, ix, k, Len(stored), tr)
  BY <1>2, <1>3 DEF AccountWith
<1>5. k - 1 \in Nat /\ q[1].arg = tr[Len(stored) + 1]
  BY <1>3, <1>4, LogsTaken
<1>6. PICK ox \in [1 .. k - 1 -> 1 .. Len(Tail(q))] :
         LogsAre(Tail(q), ox, k - 1, Len(stored) + 1, tr)
  BY <1>3, <1>4, LogsTaken
<1>7. UnderWay(open) \in Nat
  BY DEF UnderWay
<1>8. AccountWith(k - 1, ox, Tail(q), g, jnc, stored, open, tr)
  BY <1>2, <1>3, <1>5, <1>6, <1>7 DEF AccountWith
<1>. QED  BY <1>5, <1>8 DEF Account

\* What the frontend has in hand is stored, whatever is the rest of the queue.
LEMMA AccountStored ==
    ASSUME NEW q \in Seq(Messages), NEW f, NEW inc \in Entry, NEW g, NEW jnc,
           NEW stored \in Seq(Entry), NEW open, NEW tr \in Seq(Packages),
           InHand(f), ~InHand(g), PkgInHand(f, inc, q) = inc.pkg,
           Account(q, f, inc, stored, open, tr)
    PROVE  Account(q, g, jnc, Append(stored, inc), open, tr)
<1>. DEFINE longer == Append(stored, inc)
<1>1. PICK k \in Nat : \E ix \in [1 .. k -> 1 .. Len(q)] :
         AccountWith(k, ix, q, f, inc, stored, open, tr)
  BY DEF Account
<1>2. PICK ix \in [1 .. k -> 1 .. Len(q)] : AccountWith(k, ix, q, f, inc, stored, open, tr)
  BY <1>1
<1>3. AtHand(f) = 1 /\ AtHand(g) = 0 /\ Len(stored) \in Nat
  BY LenProperties DEF AtHand
<1>4. /\ Len(longer) = Len(stored) + 1 /\ longer[Len(stored) + 1] = inc
      /\ \A i \in 1 .. Len(stored) : longer[i] = stored[i]
  BY AppendProperties
<1>. HIDE DEF longer
<1>5. \A i \in 1 .. Len(longer) : longer[i].pkg = tr[i]
  <2>1. \A i \in 1 .. Len(stored) : longer[i].pkg = tr[i]
    BY <1>2, <1>4 DEF AccountWith
  <2>2. longer[Len(stored) + 1].pkg = tr[Len(stored) + 1]
    BY <1>2, <1>4 DEF AccountWith
  <2>3. \A i \in 1 .. Len(longer) : i \in 1 .. Len(stored) \/ i = Len(stored) + 1
    BY <1>3, <1>4
  <2>. QED  BY <2>1, <2>2, <2>3
<1>6. Len(longer) + AtHand(g) = Len(stored) + AtHand(f)
  BY <1>3, <1>4
<1>7. AccountWith(k, ix, q, g, jnc, longer, open, tr)
  BY <1>2, <1>5, <1>6 DEF AccountWith
<1>. QED  BY <1>7 DEF Account, longer

-----------------------------------------------------------------------------
(***************************************************************************)
(* What the backend sends, and what that does to the queue.                *)
(***************************************************************************)

\* A single message that is no part of a transfer.
LEMMA SingleMessage ==
    ASSUME NEW m \in Messages, m.type \in Requests
    PROVE  /\ <<m>> \in Seq(Messages) /\ <<m>> # <<>>
           /\ Framed(<<m>>) /\ Whole(<<m>>) /\ NoLogIn(<<m>>)
           /\ <<m>>[1].type \notin {"CTRL_DATA", "CTRL_DATA_SENT"}
<1>1. Len(<<m>>) = 1 /\ <<m>>[1] = m /\ <<m>> \in Seq(Messages) /\ <<m>> # <<>>
  OBVIOUS
<1>2. m.type \notin Sending /\ m.type \notin {"CTRL_DATA", "CTRL_DATA_SENT"} /\ m.type # "CTRL_SENDING_LOG_FILE"
  BY DEF Requests, Sending
<1>. QED  BY <1>1, <1>2 DEF Framed, Whole, WholeAt, NoLogIn, IsLog

LEMMA ThreeMessages ==
    ASSUME NEW m \in Messages, NEW n \in Messages, NEW o \in Messages
    PROVE  /\ <<m, n, o>> \in Seq(Messages) /\ Len(<<m, n, o>>) = 3
           /\ <<m, n, o>>[1] = m /\ <<m, n, o>>[2] = n /\ <<m, n, o>>[3] = o
OBVIOUS

\* A transfer is three messages: what begins it, its content and its end.
LEMMA TransferMessages ==
    ASSUME NEW t \in Sending, NEW x, NEW y, Message(t, x) \in Messages,
           Message("CTRL_DATA", y) \in Messages, Plain("CTRL_DATA_SENT") \in Messages
    PROVE  LET r == <<Message(t, x), Message("CTRL_DATA", y), Plain("CTRL_DATA_SENT")>>
           IN  /\ r \in Seq(Messages) /\ Len(r) = 3
               /\ r[1].type = t /\ r[1].arg = x /\ r[2].type = "CTRL_DATA" /\ r[2].arg = y
               /\ r[3].type = "CTRL_DATA_SENT"
<1>. DEFINE m == Message(t, x)
            n == Message("CTRL_DATA", y)
            o == Plain("CTRL_DATA_SENT")
<1>1. m.type = t /\ m.arg = x
  BY DEF Message
<1>2. n.type = "CTRL_DATA" /\ n.arg = y
  BY DEF Message
<1>3. o.type = "CTRL_DATA_SENT"
  BY DEF Message, Plain
<1>4. m \in Messages /\ n \in Messages /\ o \in Messages
  OBVIOUS
<1>. HIDE DEF m, n, o
<1>5. LET r == <<m, n, o>>
      IN  /\ r \in Seq(Messages) /\ Len(r) = 3
          /\ r[1].type = t /\ r[1].arg = x /\ r[2].type = "CTRL_DATA" /\ r[2].arg = y
          /\ r[3].type = "CTRL_DATA_SENT"
  BY <1>1, <1>2, <1>3, <1>4, ThreeMessages
<1>. QED  BY <1>5 DEF m, n, o

\* The messages of finish_logging().
LEMMA LastMessages ==
    ASSUME NEW b \in BackendState, b.logs \in Log, b.pkg \in Packages
    PROVE  LET r == LogMessages(b.logs) \o after_the_log(b)
           IN  /\ r \in Seq(Messages) /\ r # <<>> /\ Framed(r) /\ Whole(r)
               /\ r[1].type \notin {"CTRL_DATA", "CTRL_DATA_SENT"}
               /\ IsLog(r, 1) /\ r[1].arg = b.logs.pkg /\ \A i \in 2 .. Len(r) : ~IsLog(r, i)
<1>. DEFINE l == LogMessages(b.logs)
            a == after_the_log(b)
            r == l \o a
<1>1. b.logs.pkg \in Packages /\ b.time_stamp \in 0 .. MaxRuns /\ MaxRuns \in Nat
  BY PackageAssumption DEF BackendState, Log
<1>2. /\ l \in Seq(Messages) /\ Len(l) = 3
      /\ l[1].type = "CTRL_SENDING_LOG_FILE" /\ l[1].arg = b.logs.pkg
      /\ l[2].type = "CTRL_DATA" /\ l[2].arg = b.logs /\ l[3].type = "CTRL_DATA_SENT"
  <2>1. Message("CTRL_SENDING_LOG_FILE", b.logs.pkg) \in Messages
    BY <1>1 DEF Message, Messages, Sending
  <2>2. Message("CTRL_DATA", b.logs) \in Messages
    BY DEF Message, Messages
  <2>3. Plain("CTRL_DATA_SENT") \in Messages
    BY DEF Message, Plain, Messages
  <2>4. "CTRL_SENDING_LOG_FILE" \in Sending
    BY DEF Sending
  <2>. QED  BY <2>1, <2>2, <2>3, <2>4, TransferMessages DEF LogMessages
<1>3. /\ a \in Seq(Messages)
      /\ \/ a = <<>> /\ b.logs.find # "yes"
         \/ /\ Len(a) = 3 /\ a[1].type \in {"CTRL_SENDING_FILES_FILE", "CTRL_SENDING_STATE"}
            /\ b.logs.find = "yes" => a[1].type = "CTRL_SENDING_FILES_FILE"
            /\ a[2].type = "CTRL_DATA" /\ a[2].arg \in Content(a[1].type)
            /\ a[3].type = "CTRL_DATA_SENT"
  <2>0. Plain("CTRL_DATA_SENT") \in Messages
    BY DEF Message, Plain, Messages
  <2>1. CASE b.logs.find = "yes"
    <3>1. Message("CTRL_DATA", b.time_stamp) \in Messages
      BY <1>1 DEF Message, Messages
    <3>2. Message("CTRL_SENDING_FILES_FILE", "") \in Messages
      BY DEF Message, Messages, Sending
    <3>3. a = <<Message("CTRL_SENDING_FILES_FILE", ""), Message("CTRL_DATA", b.time_stamp),
                Plain("CTRL_DATA_SENT")>>
      BY <2>1 DEF after_the_log, FilesMessages, Plain
    <3>4. /\ a \in Seq(Messages) /\ Len(a) = 3 /\ a[1].type = "CTRL_SENDING_FILES_FILE"
          /\ a[2].type = "CTRL_DATA" /\ a[2].arg = b.time_stamp
          /\ a[3].type = "CTRL_DATA_SENT"
      <4>. DEFINE x == ""
                  y == b.time_stamp
                  t == <<Message("CTRL_SENDING_FILES_FILE", x), Message("CTRL_DATA", y), Plain("CTRL_DATA_SENT")>>
      <4>1. Message("CTRL_SENDING_FILES_FILE", x) \in Messages /\ Message("CTRL_DATA", y) \in Messages
        BY <3>1, <3>2
      <4>2. a = t
        BY <3>3
      <4>. HIDE DEF x, y, a
      <4>3. /\ t \in Seq(Messages) /\ Len(t) = 3 /\ t[1].type = "CTRL_SENDING_FILES_FILE"
            /\ t[2].type = "CTRL_DATA" /\ t[2].arg = y /\ t[3].type = "CTRL_DATA_SENT"
        <5>1. "CTRL_SENDING_FILES_FILE" \in Sending
          BY DEF Sending
        <5>. QED  BY <2>0, <4>1, <5>1, TransferMessages
      <4>. QED  BY <4>2, <4>3 DEF y
    <3>. HIDE DEF a
    <3>. QED  BY <1>1, <3>4 DEF Content
  <2>2. CASE b.logs.find # "yes" /\ b.time_stamp # NoStamp
    <3>. DEFINE st == [pkg |-> b.pkg, stamp |-> b.time_stamp]
    <3>1. st \in State
      BY <1>1, <2>2 DEF State, NoStamp
    <3>. HIDE DEF st
    <3>2. Message("CTRL_DATA", st) \in Messages
      BY <3>1 DEF Message, Messages
    <3>3. Message("CTRL_SENDING_STATE", "") \in Messages
      BY DEF Message, Messages, Sending
    <3>4. a = <<Message("CTRL_SENDING_STATE", ""), Message("CTRL_DATA", st), Plain("CTRL_DATA_SENT")>>
      BY <2>2 DEF after_the_log, StateMessages, Plain, st
    <3>5. /\ a \in Seq(Messages) /\ Len(a) = 3 /\ a[1].type = "CTRL_SENDING_STATE"
          /\ a[2].type = "CTRL_DATA" /\ a[2].arg = st
          /\ a[3].type = "CTRL_DATA_SENT"
      <4>. DEFINE x == ""
                  t == <<Message("CTRL_SENDING_STATE", x), Message("CTRL_DATA", st), Plain("CTRL_DATA_SENT")>>
      <4>1. Message("CTRL_SENDING_STATE", x) \in Messages
        BY <3>3
      <4>2. a = t
        BY <3>4
      <4>. HIDE DEF x, a
      <4>3. /\ t \in Seq(Messages) /\ Len(t) = 3 /\ t[1].type = "CTRL_SENDING_STATE"
            /\ t[2].type = "CTRL_DATA" /\ t[2].arg = st /\ t[3].type = "CTRL_DATA_SENT"
        <5>1. "CTRL_SENDING_STATE" \in Sending
          BY DEF Sending
        <5>. QED  BY <2>0, <3>2, <4>1, <5>1, TransferMessages
      <4>. QED  BY <4>2, <4>3
    <3>. HIDE DEF a
    <3>. QED  BY <2>2, <3>1, <3>5 DEF Content
  <2>3. CASE b.logs.find # "yes" /\ b.time_stamp = NoStamp
    BY <2>3 DEF after_the_log
  <2>. QED  BY <2>1, <2>2, <2>3
<1>. HIDE DEF l, a
<1>4. /\ r \in Seq(Messages) /\ Len(r) = 3 + Len(a)
      /\ r[1] = l[1] /\ r[2] = l[2] /\ r[3] = l[3]
      /\ Len(a) = 3 => r[4] = a[1] /\ r[5] = a[2] /\ r[6] = a[3]
  <2>1. /\ r \in Seq(Messages) /\ Len(r) = Len(l) + Len(a)
        /\ \A i \in 1 .. Len(l) : r[i] = l[i]
        /\ \A i \in 1 .. Len(a) : r[Len(l) + i] = a[i]
    BY <1>2, <1>3, Joined
  <2>. HIDE DEF r
  <2>. QED  BY <1>2, <2>1
<1>5. (Len(a) = 0 /\ b.logs.find # "yes") \/ Len(a) = 3
  BY <1>3
<1>5a. /\ Len(a) = 3 => a # <<>>
       /\ r # <<>>
  <2>1. Len(<<>>) = 0
    OBVIOUS
  <2>2. Len(r) # 0
    BY <1>4, <1>5
  <2>. HIDE DEF r
  <2>. QED  BY <2>1, <2>2
<1>. HIDE DEF r
<1>6. /\ IsLog(r, 1) /\ r[1].arg = b.logs.pkg /\ r[1].type \notin {"CTRL_DATA", "CTRL_DATA_SENT"}
      /\ r[2].type = "CTRL_DATA" /\ r[2].arg = b.logs /\ r[3].type = "CTRL_DATA_SENT"
  BY <1>2, <1>4 DEF IsLog
<1>7. FramedAt(r, 1) /\ FramedAt(r, 2)
  BY <1>3, <1>4, <1>5, <1>6 DEF FramedAt, IsLog, Sending, Content
<1>8. WholeAt(r, 1) /\ WholeAt(r, 2) /\ WholeAt(r, 3)
  BY <1>4, <1>5, <1>6 DEF WholeAt, IsLog, Sending
<1>9. ASSUME Len(a) = 3
      PROVE  /\ FramedAt(r, 3) /\ FramedAt(r, 4) /\ FramedAt(r, 5)
             /\ WholeAt(r, 4) /\ WholeAt(r, 5) /\ WholeAt(r, 6)
             /\ ~IsLog(r, 4) /\ ~IsLog(r, 5) /\ ~IsLog(r, 6)
  <2>1. a # <<>>
    BY <1>5a, <1>9
  <2>2. /\ Len(r) = 6 /\ r[4].type \in {"CTRL_SENDING_FILES_FILE", "CTRL_SENDING_STATE"}
        /\ r[5].type = "CTRL_DATA" /\ r[5].arg \in Content(r[4].type)
        /\ r[6].type = "CTRL_DATA_SENT"
    BY <1>3, <1>4, <1>9, <2>1
  <2>3. FramedAt(r, 3)
    BY <1>6, <2>2 DEF FramedAt, IsLog, Sending
  <2>4. FramedAt(r, 4) /\ FramedAt(r, 5)
    BY <2>2 DEF FramedAt, IsLog, Sending
  <2>5. WholeAt(r, 4) /\ WholeAt(r, 5) /\ WholeAt(r, 6)
    BY <2>2 DEF WholeAt, IsLog, Sending
  <2>. QED  BY <2>2, <2>3, <2>4, <2>5 DEF IsLog
<1>10. ~IsLog(r, 2) /\ ~IsLog(r, 3)
  BY <1>6 DEF IsLog
<1>11. CASE Len(a) = 3
  <2>1. Len(r) = 6 /\ r # <<>>
    BY <1>4, <1>5a, <1>11
  <2>2. \A i \in 1 .. 6 : i \in {1, 2, 3, 4, 5, 6}
    OBVIOUS
  <2>. QED  BY <1>4, <1>6, <1>7, <1>8, <1>9, <1>10, <1>11, <2>1, <2>2 DEF Framed, Whole, r, l, a
<1>12. CASE Len(a) = 0
  <2>1. Len(r) = 3 /\ r # <<>>
    BY <1>4, <1>5a, <1>12
  <2>2. \A i \in 1 .. 3 : i \in {1, 2, 3}
    OBVIOUS
  <2>. QED  BY <1>4, <1>6, <1>7, <1>8, <1>10, <2>1, <2>2 DEF Framed, Whole, r, l, a
<1>. QED  BY <1>5, <1>11, <1>12

-----------------------------------------------------------------------------
(***************************************************************************)
(* The queue between two steps.                                            *)
(***************************************************************************)
LEMMA QueueOf ==
    ASSUME NEW q \in Seq(Messages), NEW r \in Seq(Messages)
    PROVE  /\ r = <<>> => q \o r = q
           /\ q # <<>> => q \o r # <<>> /\ Tail(q) \o r = Tail(q \o r) /\ (q \o r)[1] = Head(q)
           /\ r # <<>> => Append(q, Head(r)) \o Tail(r) = q \o r
<1>1. r = <<>> => q \o r = q
  BY ConcatEmptySeq
<1>2. ASSUME q # <<>>
      PROVE  q \o r # <<>> /\ Tail(q) \o r = Tail(q \o r) /\ (q \o r)[1] = Head(q)
  <2>. DEFINE s == Tail(q)
              j == q \o r
              u == s \o r
              v == Tail(j)
  <2>1. /\ s \in Seq(Messages) /\ Len(q) \in Nat \ {0} /\ Len(s) = Len(q) - 1 /\ Head(q) = q[1]
        /\ \A i \in 1 .. Len(q) - 1 : s[i] = q[i + 1]
    BY <1>2, TailOf
  <2>2. /\ j \in Seq(Messages) /\ Len(r) \in Nat /\ Len(j) = Len(q) + Len(r)
        /\ \A i \in 1 .. Len(q) : j[i] = q[i]
        /\ \A i \in 1 .. Len(j) : i > Len(q) => j[i] = r[i - Len(q)]
    BY Joined, LenProperties
  <2>3. j # <<>> /\ j[1] = Head(q)
    <3>1. Len(j) # 0
      BY <2>1, <2>2
    <3>2. j # <<>>
      <4>. HIDE DEF j
      <4>. QED  BY <3>1, EmptySeq
    <3>. QED  BY <2>1, <2>2, <3>2
  <2>4. /\ v \in Seq(Messages) /\ Len(v) = Len(j) - 1
        /\ \A i \in 1 .. Len(j) - 1 : v[i] = j[i + 1]
    <3>. HIDE DEF j
    <3>. QED  BY <2>2, <2>3, TailOf
  <2>. HIDE DEF s, j
  <2>5. /\ u \in Seq(Messages) /\ Len(u) = Len(s) + Len(r)
        /\ \A i \in 1 .. Len(s) : u[i] = s[i]
        /\ \A i \in 1 .. Len(s) + Len(r) : i > Len(s) => u[i] = r[i - Len(s)]
    BY <2>1, Joined
  <2>. HIDE DEF u, v
  <2>6. \A i \in 1 .. Len(u) : u[i] = v[i]
    <3>1. ASSUME NEW i \in 1 .. Len(u), i <= Len(s) PROVE u[i] = v[i]
      BY <2>1, <2>2, <2>4, <2>5, <3>1
    <3>2. ASSUME NEW i \in 1 .. Len(u), i > Len(s) PROVE u[i] = v[i]
      <4>1. u[i] = r[i - Len(s)]
        BY <2>1, <2>2, <2>5, <3>2
      <4>2. v[i] = j[i + 1] /\ i + 1 \in 1 .. Len(j) /\ i + 1 > Len(q) /\ i + 1 - Len(q) = i - Len(s)
        BY <2>1, <2>2, <2>4, <2>5, <3>2
      <4>3. j[i + 1] = r[i + 1 - Len(q)]
        BY <2>2, <4>2
      <4>. QED  BY <4>1, <4>2, <4>3
    <3>3. \A i \in 1 .. Len(u) : i <= Len(s) \/ i > Len(s)
      BY <2>1
    <3>. QED  BY <3>1, <3>2, <3>3
  <2>7. u = v
    <3>1. Len(u) = Len(v)
      BY <2>1, <2>2, <2>4, <2>5
    <3>. QED  BY <2>4, <2>5, <2>6, <3>1, SeqEqual
  <2>. QED  BY <2>3, <2>7 DEF u, v, s, j
<1>3. ASSUME r # <<>> PROVE Append(q, Head(r)) \o Tail(r) = q \o r
  <2>. DEFINE h == Head(r)
              s == Tail(r)
  <2>1. /\ s \in Seq(Messages) /\ Len(r) \in Nat \ {0} /\ Len(s) = Len(r) - 1 /\ h = r[1]
        /\ h \in Messages
        /\ \A i \in 1 .. Len(r) - 1 : s[i] = r[i + 1]
    BY <1>3, TailOf
  <2>. HIDE DEF h, s
  <2>2. <<h>> \o s = r
    <3>. DEFINE o == <<h>>
                u == o \o s
    <3>1. o \in Seq(Messages) /\ Len(o) = 1 /\ o[1] = h
      BY <2>1
    <3>. HIDE DEF o
    <3>2. /\ u \in Seq(Messages) /\ Len(u) = Len(o) + Len(s)
          /\ \A i \in 1 .. Len(o) : u[i] = o[i]
          /\ \A i \in 1 .. Len(o) + Len(s) : i > Len(o) => u[i] = s[i - Len(o)]
      BY <2>1, <3>1, Joined
    <3>. HIDE DEF u
    <3>3. \A i \in 1 .. Len(u) : u[i] = r[i]
      BY <2>1, <3>1, <3>2
    <3>4. u = r
      BY <2>1, <3>1, <3>2, <3>3, SeqEqual
    <3>. QED  BY <3>4 DEF u, o
  <2>3. Append(q, h) = q \o <<h>> /\ <<h>> \in Seq(Messages)
    BY <2>1, AppendIsConcat
  <2>4. (q \o <<h>>) \o s = q \o (<<h>> \o s)
    BY SMTT(30), <2>1, <2>3, ConcatAssociative
  <2>. QED  BY <2>2, <2>3, <2>4 DEF h, s
<1>. QED  BY <1>1, <1>2, <1>3

\* What a step of the backend leaves of the bookkeeping when it only moves on.
SameTry ==
    /\ backend'.end = "exited" => backend.end = "exited"
    /\ backend'.logs = NoLog <=> backend.logs = NoLog
    /\ backend.logs # NoLog => backend'.logs.pkg = backend.logs.pkg

LEMMA AccountSameTry ==
    ASSUME NEW q, NEW f, NEW inc, NEW stored, NEW open, NEW other, NEW tr,
           other = NoLog <=> open = NoLog, open # NoLog => other.pkg = open.pkg,
           Account(q, f, inc, stored, open, tr)
    PROVE  Account(q, f, inc, stored, other, tr)
<1>1. PICK k \in Nat : \E ix \in [1 .. k -> 1 .. Len(q)] :
         AccountWith(k, ix, q, f, inc, stored, open, tr)
  BY DEF Account
<1>2. PICK ix \in [1 .. k -> 1 .. Len(q)] : AccountWith(k, ix, q, f, inc, stored, open, tr)
  BY <1>1
<1>3. AccountWith(k, ix, q, f, inc, stored, other, tr)
  BY <1>2 DEF AccountWith, UnderWay
<1>. QED  BY <1>3 DEF Account

LEMMA NothingSaid ==
    ASSUME Inductive, Queue' = Queue, UNCHANGED <<frontend, incoming, book, tries>>, SameTry
    PROVE  Transfers' /\ Complete'
<1>1. Transfers'
  BY DEF Inductive, Transfers, SameTry
<1>2. ASSUME backend'.end = "exited"
      PROVE  Account(Queue', frontend', incoming', book', backend'.logs, tries')
  <2>1. Account(Queue, frontend, incoming, book, backend.logs, tries)
    BY <1>2 DEF Inductive, Complete, SameTry
  <2>2. Account(Queue, frontend, incoming, book, backend'.logs, tries)
    BY <2>1, AccountSameTry DEF SameTry
  <2>. QED  BY <2>2
<1>. QED  BY <1>1, <1>2 DEF Complete

\* The messages r go out, none of them a log.
LEMMA SomethingSaid ==
    ASSUME Inductive, backend.end = "exited", NEW r \in Seq(Messages), Queue' = Queue \o r,
           Framed(r), Whole(r), r # <<>> => r[1].type \notin {"CTRL_DATA", "CTRL_DATA_SENT"},
           NoLogIn(r), UNCHANGED <<frontend, incoming, book, tries>>, SameTry
    PROVE  Transfers' /\ Complete'
<1>1. Queue \in Seq(Messages)
  BY Joined DEF Inductive, Typed, BackendState, Queue
<1>2. /\ Framed(Queue) /\ Fits(frontend, incoming, Queue) /\ Whole(Queue)
      /\ Awaited(frontend, incoming, Queue)
      /\ Account(Queue, frontend, incoming, book, backend.logs, tries)
  BY DEF Inductive, Transfers, Complete
<1>3. /\ Framed(Queue \o r) /\ Whole(Queue \o r)
      /\ Fits(frontend, incoming, Queue \o r) /\ Awaited(frontend, incoming, Queue \o r)
  BY <1>1, <1>2, FramedJoined, WholeJoined, FitsJoined
<1>4. Transfers'
  BY <1>3 DEF Inductive, Transfers
<1>5. book \in Seq(Entry) /\ tries \in Seq(Packages)
  BY DEF Inductive, Typed, TypeOK
<1>6. Account(Queue \o r, frontend, incoming, book, backend.logs, tries)
  BY <1>1, <1>2, <1>5, AccountJoined
<1>7. Account(Queue \o r, frontend, incoming, book, backend'.logs, tries)
  BY <1>6, AccountSameTry DEF SameTry
<1>8. Complete'
  BY <1>7 DEF Complete
<1>. QED  BY <1>4, <1>8

LEMMA MessageSaid ==
    ASSUME Inductive, backend.end = "exited", backend.outbox = <<>>, backend'.outbox = <<>>,
           NEW m \in Messages, m.type \in Requests, to_front' = Append(to_front, m),
           UNCHANGED <<frontend, incoming, book, tries>>, SameTry
    PROVE  to_front' \in Seq(Messages) /\ Transfers' /\ Complete'
<1>1. to_front \in Seq(Messages)
  BY DEF Inductive, Typed
<1>2. to_front' = to_front \o <<m>> /\ to_front' \in Seq(Messages)
  BY <1>1, AppendIsConcat, AppendProperties
<1>3. Queue = to_front /\ Queue' = to_front'
  BY <1>1, <1>2, ConcatEmptySeq DEF Queue
<1>4. Queue' = Queue \o <<m>>
  BY <1>2, <1>3
<1>5. Transfers' /\ Complete'
  BY <1>4, SingleMessage, SomethingSaid
<1>. QED  BY <1>2, <1>5

\* finish_logging(): the try under way has become a log on its way.
LEMMA LogSaid ==
    ASSUME Inductive, backend.end = "exited", backend.outbox = <<>>,
           NEW b \in BackendState, b.logs \in Log, b.pkg \in Packages,
           backend.logs # NoLog, b.logs.pkg = backend.logs.pkg,
           backend'.outbox = LogMessages(b.logs) \o after_the_log(b), backend'.logs = NoLog,
           backend'.end = "exited",
           UNCHANGED <<to_front, frontend, incoming, book, tries>>
    PROVE  backend'.outbox \in Seq(Messages) /\ Transfers' /\ Complete'
<1>. DEFINE r == LogMessages(b.logs) \o after_the_log(b)
<1>1. /\ r \in Seq(Messages) /\ r # <<>> /\ Framed(r) /\ Whole(r)
      /\ r[1].type \notin {"CTRL_DATA", "CTRL_DATA_SENT"}
      /\ IsLog(r, 1) /\ r[1].arg = b.logs.pkg /\ \A i \in 2 .. Len(r) : ~IsLog(r, i)
  BY LastMessages
<1>2. backend'.outbox = r
  OBVIOUS
<1>. HIDE DEF r
<1>3. Queue \in Seq(Messages) /\ Queue = to_front
  BY ConcatEmptySeq DEF Inductive, Typed, Queue
<1>4. Queue' = Queue \o r
  BY <1>2, <1>3 DEF Queue
<1>5. /\ Framed(Queue) /\ Fits(frontend, incoming, Queue) /\ Whole(Queue)
      /\ Awaited(frontend, incoming, Queue)
      /\ Account(Queue, frontend, incoming, book, backend.logs, tries)
  BY DEF Inductive, Transfers, Complete
<1>6. /\ Framed(Queue \o r) /\ Whole(Queue \o r)
      /\ Fits(frontend, incoming, Queue \o r) /\ Awaited(frontend, incoming, Queue \o r)
  BY <1>1, <1>3, <1>5, FramedJoined, WholeJoined, FitsJoined
<1>7. Transfers'
  BY <1>4, <1>6 DEF Inductive, Transfers
<1>8. book \in Seq(Entry) /\ tries \in Seq(Packages)
  BY DEF Inductive, Typed, TypeOK
<1>9. Account(Queue \o r, frontend, incoming, book, NoLog, tries)
  BY <1>1, <1>3, <1>5, <1>8, AccountFinished
<1>10. Complete'
  BY <1>4, <1>9 DEF Complete
<1>. QED  BY <1>1, <1>2, <1>7, <1>10

\* start_package_logging(): a try begins.
LEMMA TryBegun ==
    ASSUME Inductive, backend.end = "exited", backend.logs = NoLog, backend'.logs \in Log,
           tries' = Append(tries, backend'.logs.pkg), Queue' = Queue,
           UNCHANGED <<frontend, incoming, book>>
    PROVE  Transfers' /\ Complete'
<1>1. Transfers'
  BY DEF Inductive, Transfers
<1>2. /\ Queue \in Seq(Messages) /\ book \in Seq(Entry) /\ tries \in Seq(Packages)
      /\ Account(Queue, frontend, incoming, book, NoLog, tries)
  BY Joined DEF Inductive, Typed, TypeOK, BackendState, Queue, Complete
<1>3. Account(Queue, frontend, incoming, book, backend'.logs, tries')
  BY <1>2, AccountBegun
<1>4. Complete'
  BY <1>3 DEF Complete
<1>. QED  BY <1>1, <1>4

-----------------------------------------------------------------------------
(***************************************************************************)
(* The steps of the backend.                                               *)
(***************************************************************************)

\* The fields of the backend, for steps that leave the frontend alone.
LEMMA TypedBackend ==
    ASSUME Typed, backend' \in BackendState, UNCHANGED frontend_vars,
           to_front' \in Seq(Messages), to_back' \in Seq(Messages),
           \A i \in 1 .. Len(to_back') :
             to_back'[i].type = "CTRL_DATA" => to_back'[i].arg \in 1 .. MaxRuns,
           tries' \in Seq(Packages), run' = run,
           backend'.pc \in {"action", "work"} =>
             backend'.act \in 1 .. NumActions[backend'.pkg] + 1
    PROVE  Typed'
BY DEF Typed, TypeOK, BackendState, frontend_vars

LEMMA Standing ==
    ASSUME Inductive
    PROVE  /\ backend \in BackendState /\ to_front \in Seq(Messages) /\ to_back \in Seq(Messages)
           /\ \A i \in 1 .. Len(to_back) :
                to_back[i].type = "CTRL_DATA" => to_back[i].arg \in 1 .. MaxRuns
           /\ tries \in Seq(Packages) /\ run \in 0 .. MaxRuns
           /\ backend.pc \in {"action", "work"} => backend.act \in 1 .. NumActions[backend.pkg] + 1
           /\ NumPackages \in Nat /\ MaxRuns \in Nat /\ NumActions \in [Packages -> Nat]
           /\ should_run \subseteq Actions
BY PackageAssumption DEF Inductive, Typed, TypeOK

\* finish_logging() with what the backend has in hand, whatever it says of it.
LEMMA Finished ==
    ASSUME Inductive, backend.pc \in Living, backend.outbox = <<>>, backend.logs # NoLog,
           NEW b \in BackendState, b.logs \in Log, b.logs.pkg = backend.logs.pkg,
           b.pkg = backend.pkg, b.end = backend.end,
           NEW next \in {"finishing", "exiting"}, backend' = finish_logging(b, next),
           UNCHANGED <<frontend_vars, to_front, run, tries>>, to_back' \in Seq(Messages),
           \A i \in 1 .. Len(to_back') :
             to_back'[i].type = "CTRL_DATA" => to_back'[i].arg \in 1 .. MaxRuns
    PROVE  Inductive'
<1>1. backend.end = "exited" /\ backend.pc \in InPackage
  BY DEF Inductive, Control
<1>2. backend.pkg \in Packages
  BY <1>1 DEF Inductive, Control, InPackage
<1>3. UNCHANGED <<frontend, incoming, book>>
  BY DEF frontend_vars
<1>4. /\ backend'.outbox = LogMessages(b.logs) \o after_the_log(b) /\ backend'.logs = NoLog
      /\ backend'.end = "exited" /\ backend'.pc = next /\ backend'.pkg = backend.pkg
  BY <1>1 DEF finish_logging, BackendState
<1>5. backend'.outbox \in Seq(Messages) /\ Transfers' /\ Complete'
  BY <1>1, <1>2, <1>3, <1>4, LogSaid
<1>6. backend' \in BackendState
  <2>. DEFINE o == LogMessages(b.logs) \o after_the_log(b)
  <2>1. o \in Seq(Messages)
    BY <1>4, <1>5
  <2>2. backend' = [b EXCEPT !.pc = next, !.logs = NoLog, !.time_stamp = NoStamp, !.outbox = o]
    BY DEF finish_logging
  <2>. HIDE DEF o
  <2>3. next \in Living /\ 0 \in 0 .. MaxRuns
    BY Standing DEF Living, Listening
  <2>. QED  BY <2>1, <2>2, <2>3 DEF BackendState, NoStamp
<1>7. Typed'
  BY <1>4, <1>6, Standing, TypedBackend DEF Inductive
<1>8. Control'
  BY <1>2, <1>4 DEF Control, InPackage, Living, Listening
<1>. QED  BY <1>5, <1>7, <1>8 DEF Inductive

\* A step in which the backend only moves on.
LEMMA MovedOn ==
    ASSUME Inductive, backend.outbox = <<>>, backend'.outbox = <<>>, SameTry,
           backend' \in BackendState, UNCHANGED <<frontend_vars, to_front, run, tries>>,
           to_back' \in Seq(Messages),
           \A i \in 1 .. Len(to_back') :
             to_back'[i].type = "CTRL_DATA" => to_back'[i].arg \in 1 .. MaxRuns,
           backend'.pc \in {"action", "work"} =>
             backend'.act \in 1 .. NumActions[backend'.pkg] + 1
    PROVE  Typed' /\ Transfers' /\ Complete'
<1>1. Typed'
  BY Standing, TypedBackend DEF Inductive
<1>2. Queue' = Queue
  BY DEF Queue
<1>3. Transfers' /\ Complete'
  BY <1>2, NothingSaid DEF frontend_vars
<1>. QED  BY <1>1, <1>3

\* One in which it says something, too.
LEMMA SpokeUp ==
    ASSUME Inductive, backend.pc \in Living, backend.outbox = <<>>, backend'.outbox = <<>>, SameTry,
           backend' \in BackendState, UNCHANGED <<frontend_vars, to_back, run, tries>>,
           NEW m \in Messages, m.type \in Requests, to_front' = Append(to_front, m),
           backend'.pc \in {"action", "work"} =>
             backend'.act \in 1 .. NumActions[backend'.pkg] + 1
    PROVE  Typed' /\ Transfers' /\ Complete'
<1>1. backend.end = "exited"
  BY DEF Inductive, Control
<1>2. to_front' \in Seq(Messages) /\ Transfers' /\ Complete'
  BY <1>1, MessageSaid DEF frontend_vars
<1>3. Typed'
  BY <1>2, Standing, TypedBackend DEF Inductive
<1>. QED  BY <1>2, <1>3

\* The commands read up to a stop, or all of them.
LEMMA CommandsRead ==
    ASSUME Inductive, NEW next, read_commands(next),
           \/ backend.pc \in Listening /\ next = backend.pc
           \/ backend.pc = "listen_first" /\ next = "package"
           \/ backend.pc = "listen_in" /\ next = "check"
           \/ backend.pc = "listen_collect" /\ next = "collect"
           \/ backend.pc = "listen_out" /\ next = "report",
           UNCHANGED <<frontend_vars, to_front, history_vars>>
    PROVE  Inductive'
<1>1. /\ backend.pc \in Living /\ backend.outbox = <<>> /\ backend.end = "exited"
      /\ next \in Living /\ UNCHANGED <<run, tries>>
  BY DEF Inductive, Control, Living, Listening, history_vars
<1>. DEFINE turned == [backend EXCEPT !.method = OtherMethod(@)]
<1>2. backend \in BackendState /\ turned \in BackendState
  BY Standing DEF BackendState, OtherMethod, Methods
<1>3. /\ turned.pc = backend.pc /\ turned.outbox = backend.outbox /\ turned.logs = backend.logs
      /\ turned.pkg = backend.pkg /\ turned.act = backend.act /\ turned.end = backend.end
      /\ turned.time_stamp = backend.time_stamp /\ turned.ok = backend.ok
  BY <1>2 DEF BackendState
<1>4. ASSUME NEW m \in {backend, turned}, to_back' = <<>>, backend' = [m EXCEPT !.pc = next]
      PROVE  Inductive'
  <2>1. /\ m \in BackendState /\ m.outbox = <<>> /\ m.logs = backend.logs /\ m.end = "exited"
        /\ m.pkg = backend.pkg /\ m.act = backend.act
    BY <1>1, <1>2, <1>3, <1>4
  <2>. HIDE DEF turned
  <2>2. /\ backend' \in BackendState /\ backend'.pc = next /\ backend'.outbox = <<>>
        /\ backend'.logs = backend.logs /\ backend'.end = "exited"
        /\ backend'.pkg = backend.pkg /\ backend'.act = backend.act
    BY <1>1, <1>4, <2>1 DEF BackendState
  <2>3. to_back' \in Seq(Messages) /\ Len(to_back') = 0
    BY <1>4, EmptySeq
  <2>4. next \in {"action", "work"} => next = backend.pc
    OBVIOUS
  <2>5. Typed' /\ Transfers' /\ Complete'
    BY <1>1, <2>2, <2>3, <2>4, MovedOn, Standing DEF SameTry
  <2>6. Control'
    BY <1>1, <2>2, <2>4 DEF Inductive, Control, InPackage, Listening, Living
  <2>. QED  BY <2>5, <2>6 DEF Inductive
<1>5. ASSUME NEW m \in {backend, turned}, NEW i \in Where("CTRL_STOP"),
             to_back' = SubSeq(to_back, i + 1, Len(to_back)), backend' = log_stopped_execution(m)
      PROVE  Inductive'
  <2>1. /\ m \in BackendState /\ m.outbox = <<>> /\ m.logs = backend.logs /\ m.end = "exited"
        /\ m.pkg = backend.pkg
    BY <1>1, <1>2, <1>3, <1>5
  <2>. HIDE DEF turned
  <2>2. /\ to_back' \in Seq(Messages)
        /\ \A j \in 1 .. Len(to_back') :
             to_back'[j].type = "CTRL_DATA" => to_back'[j].arg \in 1 .. MaxRuns
    <3>1. i \in 1 .. Len(to_back) /\ Len(to_back) \in Nat
      BY Standing, LenProperties DEF Where
    <3>2. \A j \in i + 1 .. Len(to_back) : to_back[j] \in Messages
      BY <3>1, Standing, ElementOfSeq
    <3>3. /\ to_back' \in Seq(Messages)
          /\ Len(to_back') = IF i + 1 <= Len(to_back) THEN Len(to_back) - (i + 1) + 1 ELSE 0
          /\ \A j \in 1 .. Len(to_back) - (i + 1) + 1 : to_back'[j] = to_back[(i + 1) + j - 1]
      BY <1>5, <3>1, <3>2, SubSeqProperties
    <3>4. ASSUME NEW j \in 1 .. Len(to_back') 
          PROVE  j + i \in 1 .. Len(to_back) /\ to_back'[j] = to_back[j + i]
      BY <3>1, <3>3
    <3>. QED  BY <3>3, <3>4, Standing
  <2>3. CASE m.logs = NoLog
    <3>1. /\ backend' \in BackendState /\ backend'.pc = "exiting" /\ backend'.outbox = <<>>
          /\ backend'.logs = backend.logs /\ backend'.end = "exited"
      BY <1>5, <2>1, <2>3 DEF log_stopped_execution, BackendState, Living
    <3>2. Typed' /\ Transfers' /\ Complete'
      BY <1>1, <2>2, <3>1, MovedOn DEF SameTry
    <3>3. Control'
      BY <1>1, <2>1, <2>3, <3>1 DEF Control, InPackage
    <3>. QED  BY <3>2, <3>3 DEF Inductive
  <2>4. CASE m.logs # NoLog
    <3>. DEFINE b == [m EXCEPT !.logs.how = "stopped", !.ok = FALSE]
    <3>1. backend' = finish_logging(b, "exiting")
      BY <1>5, <2>4 DEF log_stopped_execution
    <3>2. m.logs \in Log
      BY <2>1, <2>4 DEF BackendState
    <3>3. /\ b \in BackendState /\ b.logs \in Log /\ b.logs.pkg = backend.logs.pkg
          /\ b.pkg = backend.pkg /\ b.end = backend.end
      BY <1>1, <2>1, <3>2 DEF BackendState, Log
    <3>. HIDE DEF b
    <3>. QED  BY <1>1, <2>1, <2>2, <2>4, <3>1, <3>3, Finished
  <2>. QED  BY <2>3, <2>4
<1>. QED  BY <1>4, <1>5 DEF read_commands

LEMMA ReadsCommands == Inductive /\ (signal_io \/ Start_receiving_sigio) => Inductive'
<1>1. ASSUME Inductive, signal_io PROVE Inductive'
  BY <1>1, CommandsRead DEF signal_io
<1>2. ASSUME Inductive, Start_receiving_sigio PROVE Inductive'
  BY <1>2, CommandsRead DEF Start_receiving_sigio
<1>. QED  BY <1>1, <1>2

LEMMA StartsPackage == Inductive /\ start_package => Inductive'
<1>. SUFFICES ASSUME Inductive, start_package PROVE Inductive'
  OBVIOUS
<1>1. /\ backend.pc = "package" /\ backend.outbox = <<>> /\ backend.end = "exited"
      /\ backend.logs = NoLog /\ backend \in BackendState /\ backend.pc \in Living
      /\ UNCHANGED <<frontend_vars, to_back, run, tries>>
  BY Standing DEF start_package, Inductive, Control, InPackage, Living, Listening, history_vars
<1>2. CASE backend' = [backend EXCEPT !.pc = "exiting"] /\ UNCHANGED to_front
  <2>1. /\ backend' \in BackendState /\ backend'.pc = "exiting" /\ backend'.outbox = <<>>
        /\ backend'.logs = NoLog /\ backend'.end = "exited"
    BY <1>1, <1>2 DEF BackendState, Living
  <2>2. Typed' /\ Transfers' /\ Complete'
    BY <1>1, <1>2, <2>1, MovedOn, Standing DEF SameTry
  <2>3. Control'
    BY <1>1, <2>1 DEF Control, InPackage
  <2>. QED  BY <2>2, <2>3 DEF Inductive
<1>3. CASE /\ backend.pkg <= NumPackages /\ backend' = [backend EXCEPT !.pkg = @ + 1]
           /\ UNCHANGED to_front
  <2>0. backend.pkg + 1 \in 1 .. NumPackages + 1
    BY <1>1, <1>3, Standing DEF BackendState
  <2>1. /\ backend' \in BackendState /\ backend'.pc = "package" /\ backend'.outbox = <<>>
        /\ backend'.logs = NoLog /\ backend'.end = "exited"
    BY <1>1, <1>3, <2>0 DEF BackendState
  <2>2. Typed' /\ Transfers' /\ Complete'
    BY <1>1, <1>3, <2>1, MovedOn, Standing DEF SameTry
  <2>3. Control'
    BY <1>1, <2>1 DEF Control, InPackage
  <2>. QED  BY <2>2, <2>3 DEF Inductive
<1>4. CASE /\ backend.pkg <= NumPackages /\ backend' = [backend EXCEPT !.pc = "starting"]
           /\ send_to_front("CTRL_ELEMENT_STARTED", <<backend.pkg, 0>>)
  <2>1. backend.pkg \in Packages
    BY <1>1, <1>4, Standing DEF BackendState, Packages
  <2>2. /\ backend' \in BackendState /\ backend'.pc = "starting" /\ backend'.outbox = <<>>
        /\ backend'.logs = NoLog /\ backend'.end = "exited" /\ backend'.pkg = backend.pkg
    BY <1>1, <1>4 DEF BackendState, Living, Listening
  <2>. DEFINE m == Message("CTRL_ELEMENT_STARTED", <<backend.pkg, 0>>)
  <2>3. m \in Messages /\ m.type \in Requests /\ to_front' = Append(to_front, m)
    BY <1>4, <2>1 DEF Message, Messages, Requests, send_to_front
  <2>. HIDE DEF m
  <2>4. Typed' /\ Transfers' /\ Complete'
    BY <1>1, <2>2, <2>3, SpokeUp DEF SameTry
  <2>5. Control'
    BY <1>1, <2>1, <2>2 DEF Control, InPackage
  <2>. QED  BY <2>4, <2>5 DEF Inductive
<1>5. backend.pkg > NumPackages \/ backend.pkg <= NumPackages
  BY <1>1, Standing DEF BackendState
<1>. QED  BY <1>2, <1>3, <1>4, <1>5 DEF start_package

LEMMA RequestsState == Inductive /\ request_state => Inductive'
<1>. SUFFICES ASSUME Inductive, request_state PROVE Inductive'
  OBVIOUS
<1>1. /\ backend.pc = "starting" /\ backend.outbox = <<>> /\ backend.end = "exited"
      /\ backend.logs = NoLog /\ backend \in BackendState /\ backend.pkg \in Packages
      /\ backend.pc \in Living /\ UNCHANGED <<frontend_vars, to_back, run, tries>>
  BY Standing DEF request_state, Inductive, Control, InPackage, Living, Listening, history_vars
<1>2. /\ backend' \in BackendState /\ backend'.pc = "wait_state" /\ backend'.outbox = <<>>
      /\ backend'.logs = NoLog /\ backend'.end = "exited" /\ backend'.pkg = backend.pkg
  BY <1>1 DEF request_state, BackendState, Living
<1>. DEFINE m == Message("CTRL_REQUESTING_STATE", "")
<1>3. m \in Messages /\ m.type \in Requests /\ to_front' = Append(to_front, m)
  BY DEF Message, Messages, Requests, send_to_front, request_state
<1>. HIDE DEF m
<1>4. Typed' /\ Transfers' /\ Complete'
  BY <1>1, <1>2, <1>3, SpokeUp DEF SameTry
<1>5. Control'
  BY <1>1, <1>2 DEF Control, InPackage
<1>. QED  BY <1>4, <1>5 DEF Inductive

\* The first message is taken from the backend's socket.
LEMMA BackTaken ==
    ASSUME Inductive, to_back # <<>>, to_back' = Tail(to_back)
    PROVE  /\ to_back' \in Seq(Messages)
           /\ Head(to_back).type = "CTRL_DATA" => Head(to_back).arg \in 1 .. MaxRuns
           /\ \A i \in 1 .. Len(to_back') :
                to_back'[i].type = "CTRL_DATA" => to_back'[i].arg \in 1 .. MaxRuns
<1>1. /\ to_back' \in Seq(Messages) /\ Len(to_back) \in Nat \ {0}
      /\ Len(to_back') = Len(to_back) - 1 /\ Head(to_back) = to_back[1]
      /\ \A i \in 1 .. Len(to_back) - 1 : to_back'[i] = to_back[i + 1]
  BY Standing, TailOf
<1>. QED  BY <1>1, Standing

\* stage_one_of_logging_changed_files()
LEMMA BeginsTry ==
    ASSUME Inductive, backend.pc \in {"wait_state", "read_state"}, stage_one(backend.time_stamp),
           to_back # <<>>, to_back' = Tail(to_back), UNCHANGED <<frontend_vars, to_front>>
    PROVE  Inductive'
<1>1. /\ backend.outbox = <<>> /\ backend.end = "exited"
      /\ backend.logs = NoLog /\ backend \in BackendState /\ backend.pkg \in Packages
  BY Standing DEF Inductive, Control, InPackage, Living
<1>. DEFINE stamp == IF backend.method = "LOG_USING_ONE_FIND" /\ backend.time_stamp = NoStamp
                       THEN run ELSE backend.time_stamp
            open  == [NoLog EXCEPT !.pkg = backend.pkg]
<1>2. stamp \in 0 .. MaxRuns /\ open \in Log /\ open.pkg = backend.pkg
  BY <1>1, Standing DEF BackendState, NoLog, Log
<1>3. /\ backend' = [backend EXCEPT !.pc = "listen_in", !.time_stamp = stamp, !.logs = open]
      /\ tries' = Append(tries, backend.pkg) /\ run' = run
  BY DEF stage_one
<1>. HIDE DEF stamp, open
<1>4. /\ backend' \in BackendState /\ backend'.pc = "listen_in" /\ backend'.outbox = <<>>
      /\ backend'.logs = open /\ backend'.end = "exited" /\ backend'.pkg = backend.pkg
  BY <1>1, <1>2, <1>3 DEF BackendState, Living
<1>5. tries' \in Seq(Packages)
  BY <1>1, <1>3, Standing, AppendProperties
<1>6. Typed'
  BY <1>3, <1>4, <1>5, Standing, BackTaken, TypedBackend DEF Inductive
<1>7. Queue' = Queue
  BY <1>1, <1>4 DEF Queue
<1>8. Transfers' /\ Complete'
  BY <1>1, <1>2, <1>3, <1>4, <1>7, TryBegun DEF frontend_vars
<1>9. Control'
  BY <1>1, <1>2, <1>4 DEF Control, InPackage
<1>. QED  BY <1>6, <1>8, <1>9 DEF Inductive

LEMMA ReceivesState == Inductive /\ (answer_state \/ receive_state) => Inductive'
<1>. SUFFICES ASSUME Inductive, answer_state \/ receive_state PROVE Inductive'
  OBVIOUS
<1>1. /\ backend.pc \in {"wait_state", "read_state"} /\ backend.outbox = <<>> /\ backend.end = "exited"
      /\ backend.logs = NoLog /\ backend \in BackendState /\ backend.pkg \in Packages
      /\ to_back # <<>> /\ to_back' = Tail(to_back) /\ UNCHANGED <<frontend_vars, to_front>>
  BY Standing DEF answer_state, receive_state, Inductive, Control, InPackage, Living
<1>2. CASE stage_one(backend.time_stamp)
  BY <1>1, <1>2, BeginsTry
<1>3. ASSUME NEW p \in {"wait_state", "read_state"}, NEW stamp \in 0 .. MaxRuns,
             backend' = [backend EXCEPT !.pc = p, !.time_stamp = stamp], UNCHANGED history_vars
      PROVE  Inductive'
  <2>1. /\ backend' \in BackendState /\ backend'.pc = p /\ backend'.outbox = <<>>
        /\ backend'.logs = NoLog /\ backend'.end = "exited" /\ backend'.pkg = backend.pkg
    BY <1>1, <1>3 DEF BackendState, Living
  <2>2. Typed' /\ Transfers' /\ Complete'
    BY <1>1, <1>3, <2>1, MovedOn, BackTaken DEF SameTry, history_vars
  <2>3. Control'
    BY <1>1, <2>1 DEF Control, InPackage
  <2>. QED  BY <2>2, <2>3 DEF Inductive
<1>4. backend.time_stamp \in 0 .. MaxRuns /\ (1 .. MaxRuns) \subseteq 0 .. MaxRuns
  BY <1>1, Standing DEF BackendState
<1>5. CASE answer_state
  <2>1. CASE Head(to_back).type = "CTRL_SENDING_STATE"
    <3>1. backend' = [backend EXCEPT !.pc = "read_state", !.time_stamp = backend.time_stamp]
      BY <1>1, <1>5, <2>1 DEF answer_state, BackendState
    <3>. QED  BY <1>3, <1>4, <1>5, <2>1, <3>1 DEF answer_state
  <2>2. CASE Head(to_back).type # "CTRL_SENDING_STATE"
    BY <1>2, <1>5, <2>2 DEF answer_state
  <2>. QED  BY <2>1, <2>2
<1>6. CASE receive_state
  <2>1. CASE Head(to_back).type = "CTRL_DATA"
    <3>1. Head(to_back).arg \in 0 .. MaxRuns
      BY <1>1, <1>4, <2>1, BackTaken
    <3>2. backend' = [backend EXCEPT !.pc = "read_state", !.time_stamp = Head(to_back).arg]
      BY <1>1, <1>6, <2>1 DEF receive_state, BackendState
    <3>. QED  BY <1>3, <1>6, <2>1, <3>1, <3>2 DEF receive_state
  <2>2. CASE Head(to_back).type = "CTRL_DATA_SENT"
    BY <1>2, <1>6, <2>2 DEF receive_state
  <2>3. CASE Head(to_back).type \notin {"CTRL_DATA", "CTRL_DATA_SENT"}
    <3>1. backend' = [backend EXCEPT !.pc = "read_state", !.time_stamp = backend.time_stamp]
      BY <1>1, <1>6, <2>3 DEF receive_state, BackendState
    <3>. QED  BY <1>3, <1>4, <1>6, <2>3, <3>1 DEF receive_state
  <2>. QED  BY <2>1, <2>2, <2>3
<1>. QED  BY <1>5, <1>6

LEMMA ChecksRequires == Inductive /\ check_requires => Inductive'
<1>. SUFFICES ASSUME Inductive, check_requires PROVE Inductive'
  OBVIOUS
<1>1. /\ backend.pc = "check" /\ backend.outbox = <<>> /\ backend.end = "exited"
      /\ backend.logs \in Log /\ backend \in BackendState /\ backend.pkg \in Packages
      /\ UNCHANGED <<frontend_vars, to_front, to_back, run, tries>>
  BY Standing DEF check_requires, Inductive, Control, InPackage, Living, Listening, history_vars, socket_vars
<1>2. NumActions[backend.pkg] \in Nat
  BY <1>1, Standing
<1>3. /\ backend' \in BackendState /\ backend'.pc \in {"action", "ending"} /\ backend'.outbox = <<>>
      /\ backend'.logs = backend.logs /\ backend'.end = "exited" /\ backend'.pkg = backend.pkg
      /\ backend'.pc = "action" => backend'.act = 1
  <2>1. CASE backend' = [backend EXCEPT !.pc = "action", !.act = 1]
    BY <1>1, <2>1 DEF BackendState, Living, Listening
  <2>2. CASE backend' = [backend EXCEPT !.pc = "ending", !.ok = FALSE]
    BY <1>1, <2>2 DEF BackendState, Living, Listening
  <2>. QED  BY <2>1, <2>2 DEF check_requires
<1>4. Typed' /\ Transfers' /\ Complete'
  BY <1>1, <1>2, <1>3, MovedOn, Standing DEF SameTry
<1>5. Control'
  BY <1>1, <1>3 DEF Control, InPackage
<1>. QED  BY <1>4, <1>5 DEF Inductive

LEMMA StartsAction == Inductive /\ start_action => Inductive'
<1>. SUFFICES ASSUME Inductive, start_action PROVE Inductive'
  OBVIOUS
<1>1. /\ backend.pc = "action" /\ backend.outbox = <<>> /\ backend.end = "exited"
      /\ backend.logs \in Log /\ backend \in BackendState /\ backend.pkg \in Packages
      /\ backend.pc \in Living /\ UNCHANGED <<frontend_vars, to_back, run, tries>>
  BY Standing DEF start_action, Inductive, Control, InPackage, Living, Listening, history_vars
<1>2. NumActions[backend.pkg] \in Nat /\ backend.act \in 1 .. NumActions[backend.pkg] + 1
  BY <1>1, Standing
<1>3. CASE NoChildLeft(backend)
  <2>1. backend' = [backend EXCEPT !.pc = "ending"] /\ UNCHANGED to_front
    BY <1>3 DEF start_action
  <2>2. /\ backend' \in BackendState /\ backend'.pc = "ending" /\ backend'.outbox = <<>>
        /\ backend'.logs = backend.logs /\ backend'.end = "exited" /\ backend'.pkg = backend.pkg
    BY <1>1, <2>1 DEF BackendState, Living, Listening
  <2>3. Typed' /\ Transfers' /\ Complete'
    BY <1>1, <2>1, <2>2, MovedOn, Standing DEF SameTry
  <2>4. Control'
    BY <1>1, <2>2 DEF Control, InPackage
  <2>. QED  BY <2>3, <2>4 DEF Inductive
<1>4. CASE ~NoChildLeft(backend) /\ <<backend.pkg, backend.act>> \notin should_run
  <2>1. backend' = [backend EXCEPT !.act = @ + 1] /\ UNCHANGED to_front
    BY <1>4 DEF start_action
  <2>2. /\ backend' \in BackendState /\ backend'.pc = "action" /\ backend'.outbox = <<>>
        /\ backend'.logs = backend.logs /\ backend'.end = "exited" /\ backend'.pkg = backend.pkg
        /\ backend'.act = backend.act + 1
    BY <1>1, <1>2, <2>1 DEF BackendState
  <2>3. backend'.act \in 1 .. NumActions[backend.pkg] + 1
    BY <1>2, <1>4, <2>2 DEF NoChildLeft
  <2>4. Typed' /\ Transfers' /\ Complete'
    BY <1>1, <2>1, <2>2, <2>3, MovedOn, Standing DEF SameTry
  <2>5. Control'
    BY <1>1, <2>2 DEF Control, InPackage
  <2>. QED  BY <2>4, <2>5 DEF Inductive
<1>5. CASE ~NoChildLeft(backend) /\ <<backend.pkg, backend.act>> \in should_run
  <2>. DEFINE m == Message("CTRL_ELEMENT_STARTED", <<backend.pkg, backend.act>>)
  <2>1. backend' = [backend EXCEPT !.pc = "work"] /\ to_front' = Append(to_front, m)
    BY <1>5 DEF start_action, send_to_front
  <2>2. m \in Messages /\ m.type \in Requests
    <3>1. <<backend.pkg, backend.act>> \in Packages \X Nat
      BY <1>1, <1>2
    <3>. QED  BY <3>1 DEF Message, Messages, Requests
  <2>. HIDE DEF m
  <2>3. /\ backend' \in BackendState /\ backend'.pc = "work" /\ backend'.outbox = <<>>
        /\ backend'.logs = backend.logs /\ backend'.end = "exited" /\ backend'.pkg = backend.pkg
        /\ backend'.act = backend.act
    BY <1>1, <2>1 DEF BackendState, Living, Listening
  <2>4. Typed' /\ Transfers' /\ Complete'
    BY <1>1, <1>2, <2>1, <2>2, <2>3, SpokeUp DEF SameTry
  <2>5. backend.act \in 1 .. NumActions[backend.pkg]
    BY <1>2, <1>5 DEF NoChildLeft
  <2>6. Control'
    BY <1>1, <2>3, <2>5 DEF Control, InPackage
  <2>. QED  BY <2>4, <2>6 DEF Inductive
<1>. QED  BY <1>3, <1>4, <1>5

LEMMA EndsAction == Inductive /\ end_action => Inductive'
<1>. SUFFICES ASSUME Inductive, end_action PROVE Inductive'
  OBVIOUS
<1>1. /\ backend.pc = "work" /\ backend.outbox = <<>> /\ backend.end = "exited"
      /\ backend.logs \in Log /\ backend \in BackendState /\ backend.pkg \in Packages
      /\ backend.act \in 1 .. NumActions[backend.pkg]
      /\ backend.pc \in Living /\ UNCHANGED <<frontend_vars, to_back, run, tries>>
  BY Standing DEF end_action, Inductive, Control, InPackage, Living, Listening, history_vars
<1>2. NumActions[backend.pkg] \in Nat
  BY <1>1, Standing
<1>3. PICK t \in {"CTRL_ELEMENT_ENDED", "CTRL_ELEMENT_FAILED"} :
        /\ to_front' = Append(to_front, Message(t, <<backend.pkg, backend.act>>))
        /\ \/ backend' = [backend EXCEPT !.pc = "action", !.act = @ + 1]
           \/ backend' = [backend EXCEPT !.pc = "ending", !.ok = FALSE]
  BY DEF end_action, send_to_front
<1>. DEFINE m == Message(t, <<backend.pkg, backend.act>>)
<1>4. m \in Messages /\ m.type \in Requests /\ to_front' = Append(to_front, m)
  <2>1. <<backend.pkg, backend.act>> \in Packages \X Nat
    BY <1>1, <1>2
  <2>. QED  BY <1>3, <2>1 DEF Message, Messages, Requests
<1>. HIDE DEF m
<1>5. /\ backend' \in BackendState /\ backend'.pc \in {"action", "ending"} /\ backend'.outbox = <<>>
      /\ backend'.logs = backend.logs /\ backend'.end = "exited" /\ backend'.pkg = backend.pkg
      /\ backend'.pc = "action" => backend'.act = backend.act + 1
  <2>1. CASE backend' = [backend EXCEPT !.pc = "action", !.act = @ + 1]
    <3>1. backend.act + 1 \in Nat
      BY <1>1, <1>2
    <3>. QED  BY <1>1, <2>1, <3>1 DEF BackendState, Living, Listening
  <2>2. CASE backend' = [backend EXCEPT !.pc = "ending", !.ok = FALSE]
    BY <1>1, <2>2 DEF BackendState, Living, Listening
  <2>. QED  BY <1>3, <2>1, <2>2
<1>6. backend.act + 1 \in 1 .. NumActions[backend.pkg] + 1
  BY <1>1, <1>2
<1>7. Typed' /\ Transfers' /\ Complete'
  BY <1>1, <1>4, <1>5, <1>6, SpokeUp DEF SameTry
<1>8. Control'
  BY <1>1, <1>5 DEF Control, InPackage
<1>. QED  BY <1>7, <1>8 DEF Inductive

LEMMA EndsLogging == Inductive /\ end_package_logging => Inductive'
<1>. SUFFICES ASSUME Inductive, end_package_logging PROVE Inductive'
  OBVIOUS
<1>1. /\ backend.pc = "ending" /\ backend.outbox = <<>> /\ backend.end = "exited"
      /\ backend.logs \in Log /\ backend.logs # NoLog /\ backend \in BackendState
      /\ backend.pkg \in Packages
      /\ backend.pc \in Living /\ UNCHANGED <<frontend_vars, to_back, run, tries>>
  <2>1. \A l \in Log : l # NoLog
    BY PackageAssumption DEF Log, NoLog, Packages
  <2>. QED  BY <2>1, Standing DEF end_package_logging, Inductive, Control, InPackage, Living, Listening, history_vars
<1>. DEFINE how   == IF backend.ok THEN "ended" ELSE "failed"
            ended == [backend EXCEPT !.logs.how = how]
<1>2. how \in {"ended", "failed"}
  OBVIOUS
<1>3. /\ ended \in BackendState /\ ended.logs \in Log /\ ended.logs.pkg = backend.logs.pkg
      /\ ended.pkg = backend.pkg /\ ended.end = backend.end /\ ended.outbox = <<>>
  <2>. HIDE DEF how
  <2>. QED  BY <1>1, <1>2 DEF BackendState, Log
<1>4. \/ backend' = finish_logging(ended, "finishing") /\ UNCHANGED to_front
      \/ /\ backend' = [ended EXCEPT !.pc = "wait_status"]
         /\ to_front' = Append(to_front, Message("CTRL_REQUEST_EL_STATUS", backend.pkg))
  BY DEF end_package_logging, send_to_front
<1>. HIDE DEF ended
<1>5. CASE backend' = finish_logging(ended, "finishing") /\ UNCHANGED to_front
  BY <1>1, <1>3, <1>5, Finished, Standing
<1>6. CASE /\ backend' = [ended EXCEPT !.pc = "wait_status"]
           /\ to_front' = Append(to_front, Message("CTRL_REQUEST_EL_STATUS", backend.pkg))
  <2>. DEFINE m == Message("CTRL_REQUEST_EL_STATUS", backend.pkg)
  <2>1. m \in Messages /\ m.type \in Requests /\ to_front' = Append(to_front, m)
    BY <1>1, <1>6 DEF Message, Messages, Requests
  <2>. HIDE DEF m
  <2>2. /\ backend' \in BackendState /\ backend'.pc = "wait_status" /\ backend'.outbox = <<>>
        /\ backend'.logs = ended.logs /\ backend'.end = "exited" /\ backend'.pkg = backend.pkg
    BY <1>1, <1>3, <1>6 DEF BackendState, Living
  <2>3. ended.logs # NoLog
    BY <1>3, PackageAssumption DEF Log, NoLog, Packages
  <2>4. Typed' /\ Transfers' /\ Complete'
    BY <1>1, <1>3, <2>1, <2>2, <2>3, SpokeUp DEF SameTry
  <2>5. Control'
    BY <1>1, <1>3, <2>2 DEF Control, InPackage
  <2>. QED  BY <2>4, <2>5 DEF Inductive
<1>. QED  BY <1>4, <1>5, <1>6

LEMMA LearnsStatus == Inductive /\ answer_status => Inductive'
<1>. SUFFICES ASSUME Inductive, answer_status PROVE Inductive'
  OBVIOUS
<1>1. /\ backend.pc = "wait_status" /\ backend.outbox = <<>> /\ backend.end = "exited"
      /\ backend.logs \in Log /\ backend.logs # NoLog /\ backend \in BackendState
      /\ backend.pkg \in Packages /\ backend.pc \in Living
      /\ to_back # <<>> /\ to_back' = Tail(to_back)
      /\ UNCHANGED <<frontend_vars, to_front, run, tries>>
  <2>1. \A l \in Log : l # NoLog
    BY PackageAssumption DEF Log, NoLog, Packages
  <2>. QED  BY <2>1, Standing DEF answer_status, Inductive, Control, InPackage, Living, history_vars
<1>2. \/ backend' = [backend EXCEPT !.pc = "dead", !.end = "crashed"]
      \/ backend' = [backend EXCEPT !.pc = "listen_collect"]
      \/ backend' = finish_logging(backend, "finishing")
  BY DEF answer_status
<1>3. CASE backend' = [backend EXCEPT !.pc = "dead", !.end = "crashed"]
  <2>1. /\ backend' \in BackendState /\ backend'.pc = "dead" /\ backend'.outbox = <<>>
        /\ backend'.logs = backend.logs /\ backend'.end = "crashed"
    BY <1>1, <1>3 DEF BackendState
  <2>2. Typed' /\ Transfers' /\ Complete'
    BY <1>1, <2>1, MovedOn, BackTaken DEF SameTry
  <2>3. Control'
    BY <2>1 DEF Control, InPackage, Living, Listening
  <2>. QED  BY <2>2, <2>3 DEF Inductive
<1>4. CASE backend' = [backend EXCEPT !.pc = "listen_collect"]
  <2>1. /\ backend' \in BackendState /\ backend'.pc = "listen_collect" /\ backend'.outbox = <<>>
        /\ backend'.logs = backend.logs /\ backend'.end = "exited" /\ backend'.pkg = backend.pkg
    BY <1>1, <1>4 DEF BackendState, Living
  <2>2. Typed' /\ Transfers' /\ Complete'
    BY <1>1, <2>1, MovedOn, BackTaken DEF SameTry
  <2>3. Control'
    BY <1>1, <2>1 DEF Control, InPackage
  <2>. QED  BY <2>2, <2>3 DEF Inductive
<1>5. CASE backend' = finish_logging(backend, "finishing")
  BY <1>1, <1>5, Finished, BackTaken
<1>. QED  BY <1>2, <1>3, <1>4, <1>5

LEMMA CollectsFiles == Inductive /\ collect_files => Inductive'
<1>. SUFFICES ASSUME Inductive, collect_files PROVE Inductive'
  OBVIOUS
<1>1. /\ backend.pc = "collect" /\ backend.outbox = <<>> /\ backend.end = "exited"
      /\ backend.logs \in Log /\ backend.logs # NoLog /\ backend \in BackendState
      /\ backend.pc \in Living /\ UNCHANGED <<frontend_vars, to_front, to_back, run, tries>>
  <2>1. \A l \in Log : l # NoLog
    BY PackageAssumption DEF Log, NoLog, Packages
  <2>. QED  BY <2>1, Standing DEF collect_files, Inductive, Control, InPackage, Living, Listening, socket_vars
<1>2. PICK found \in {"yes", "failed"} :
        backend' = finish_logging([backend EXCEPT !.logs.find = found], "finishing")
  BY DEF collect_files
<1>. DEFINE b == [backend EXCEPT !.logs.find = found]
<1>3. /\ b \in BackendState /\ b.logs \in Log /\ b.logs.pkg = backend.logs.pkg
      /\ b.pkg = backend.pkg /\ b.end = backend.end
  BY <1>1 DEF BackendState, Log
<1>4. backend' = finish_logging(b, "finishing")
  BY <1>2
<1>. HIDE DEF b
<1>. QED  BY <1>1, <1>3, <1>4, Finished, Standing

LEMMA SendsOutbox == Inductive /\ send_outbox => Inductive'
<1>. SUFFICES ASSUME Inductive, send_outbox PROVE Inductive'
  OBVIOUS
<1>1. /\ backend.pc \in {"finishing", "exiting"} /\ backend.end = "exited"
      /\ backend.logs = NoLog /\ backend \in BackendState /\ backend.outbox \in Seq(Messages)
      /\ backend.pc = "finishing" => backend.pkg \in Packages
      /\ UNCHANGED <<frontend_vars, to_back, run, tries>>
  BY Standing DEF send_outbox, Inductive, Control, InPackage, Living, history_vars, BackendState
<1>2. CASE backend.outbox # <<>>
  <2>1. /\ Head(backend.outbox) \in Messages /\ Tail(backend.outbox) \in Seq(Messages)
        /\ to_front' = Append(to_front, Head(backend.outbox))
        /\ backend' = [backend EXCEPT !.outbox = Tail(backend.outbox)]
    BY <1>1, <1>2, HeadTailProperties DEF send_outbox
  <2>2. /\ backend' \in BackendState /\ backend'.outbox = Tail(backend.outbox)
        /\ backend'.pc = backend.pc /\ backend'.logs = NoLog /\ backend'.end = "exited"
        /\ backend'.pkg = backend.pkg
    BY <1>1, <2>1 DEF BackendState
  <2>3. to_front' \in Seq(Messages) /\ Queue' = Queue
    <3>. DEFINE o == backend.outbox
    <3>1. to_front \in Seq(Messages) /\ o \in Seq(Messages) /\ o # <<>>
      BY <1>1, <1>2, Standing
    <3>2. Append(to_front, Head(o)) \o Tail(o) = to_front \o o
      <4>. HIDE DEF o
      <4>. QED  BY <3>1, QueueOf
    <3>3. to_front' \in Seq(Messages)
      BY <2>1, <3>1, AppendProperties
    <3>. QED  BY <2>1, <2>2, <3>2, <3>3 DEF Queue
  <2>4. Transfers' /\ Complete'
    BY <1>1, <2>2, <2>3, NothingSaid DEF SameTry, frontend_vars
  <2>5. Typed'
    BY <1>1, <2>2, <2>3, Standing, TypedBackend DEF Inductive
  <2>6. Control'
    BY <1>1, <2>2 DEF Control, InPackage
  <2>. QED  BY <2>4, <2>5, <2>6 DEF Inductive
<1>3. CASE backend.outbox = <<>>
  <2>1. /\ backend' = [backend EXCEPT !.pc = IF @ = "exiting" THEN "dead" ELSE "listen_out"]
        /\ UNCHANGED to_front
    BY <1>3 DEF send_outbox
  <2>2. /\ backend' \in BackendState /\ backend'.outbox = <<>>
        /\ backend'.pc = IF backend.pc = "exiting" THEN "dead" ELSE "listen_out"
        /\ backend'.logs = NoLog /\ backend'.end = "exited" /\ backend'.pkg = backend.pkg
    BY <1>1, <1>3, <2>1 DEF BackendState, Living
  <2>3. Typed' /\ Transfers' /\ Complete'
    BY <1>1, <1>3, <2>1, <2>2, MovedOn, Standing DEF SameTry
  <2>4. Control'
    BY <1>1, <2>2 DEF Control, InPackage
  <2>. QED  BY <2>3, <2>4 DEF Inductive
<1>. QED  BY <1>2, <1>3

LEMMA EndsPackage == Inductive /\ end_package => Inductive'
<1>. SUFFICES ASSUME Inductive, end_package PROVE Inductive'
  OBVIOUS
<1>1. /\ backend.pc = "report" /\ backend.outbox = <<>> /\ backend.end = "exited"
      /\ backend.logs = NoLog /\ backend \in BackendState /\ backend.pkg \in Packages
      /\ backend.pc \in Living /\ UNCHANGED <<frontend_vars, to_back, run, tries>>
  BY Standing DEF end_package, Inductive, Control, InPackage, Living, Listening, history_vars
<1>2. PICK t \in {"CTRL_ELEMENT_ENDED", "CTRL_ELEMENT_FAILED"} :
        /\ to_front' = Append(to_front, Message(t, <<backend.pkg, 0>>))
        /\ \/ backend' = [backend EXCEPT !.pc = "package", !.pkg = @ + 1]
           \/ backend' = [backend EXCEPT !.pc = "exiting"]
  BY DEF end_package, send_to_front
<1>. DEFINE m == Message(t, <<backend.pkg, 0>>)
<1>3. m \in Messages /\ m.type \in Requests /\ to_front' = Append(to_front, m)
  BY <1>1, <1>2 DEF Message, Messages, Requests
<1>. HIDE DEF m
<1>4. backend.pkg + 1 \in 1 .. NumPackages + 1
  BY <1>1, Standing DEF Packages
<1>5. /\ backend' \in BackendState /\ backend'.pc \in {"package", "exiting"} /\ backend'.outbox = <<>>
      /\ backend'.logs = NoLog /\ backend'.end = "exited"
  BY <1>1, <1>2, <1>4 DEF BackendState, Living, Listening
<1>6. Typed' /\ Transfers' /\ Complete'
  BY <1>1, <1>3, <1>5, SpokeUp DEF SameTry
<1>7. Control'
  BY <1>1, <1>5 DEF Control, InPackage
<1>. QED  BY <1>6, <1>7 DEF Inductive

\* A kill cuts off what was being sent.
LEMMA Killed == Inductive /\ kill => Inductive'
<1>. SUFFICES ASSUME Inductive, kill PROVE Inductive'
  OBVIOUS
<1>1. /\ backend.pc \in Living /\ backend \in BackendState
      /\ UNCHANGED <<frontend_vars, to_front, to_back, run, tries>>
  BY Standing DEF kill, socket_vars
<1>2. /\ backend' \in BackendState /\ backend'.pc = "dead" /\ backend'.outbox = <<>>
      /\ backend'.end = "killed"
  <2>1. <<>> \in Seq(Messages)
    OBVIOUS
  <2>. QED  BY <1>1, <2>1 DEF kill, BackendState
<1>3. Typed'
  BY <1>1, <1>2, Standing, TypedBackend DEF Inductive
<1>4. Control'
  BY <1>2 DEF Control, InPackage, Living, Listening
<1>5. Complete'
  BY <1>2 DEF Complete
<1>6. Transfers'
  <2>. DEFINE q == to_front
              r == backend.outbox
              j == q \o r
  <2>1. q \in Seq(Messages) /\ r \in Seq(Messages)
    BY <1>1, Standing DEF BackendState
  <2>2. Framed(j) /\ Fits(frontend, incoming, j)
    BY DEF Inductive, Transfers, Queue
  <2>3. Queue' = q
    BY <1>1, <1>2, <2>1, ConcatEmptySeq DEF Queue
  <2>4. Framed(q)
    <3>. HIDE DEF q, r
    <3>. QED  BY <2>1, <2>2, FramedPrefix
  <2>5. /\ Len(q) \in Nat /\ Len(r) \in Nat /\ Len(j) = Len(q) + Len(r)
        /\ \A i \in 1 .. Len(q) : j[i] = q[i]
        /\ q # <<>> => Len(q) # 0
        /\ q # <<>> => j # <<>>
    <3>. HIDE DEF q, r
    <3>. QED  BY <2>1, Joined, LenProperties, EmptySeq, QueueOf
  <2>6. Fits(frontend, incoming, q)
    <3>. HIDE DEF q, r, j
    <3>1. CASE q = <<>>
      BY <2>2, <3>1 DEF Fits
    <3>2. CASE q # <<>>
      <4>1. /\ q[1] = j[1] /\ j # <<>> /\ (Len(q) >= 2 => q[2] = j[2]) /\ (Len(q) >= 3 => q[3] = j[3])
            /\ (Len(q) >= 2 => Len(j) >= 2) /\ (Len(q) >= 3 => Len(j) >= 3)
        BY <2>5, <3>2
      <4>. QED  BY <2>2, <3>2, <4>1 DEF Fits, DataIsNext, EndIsNext
    <3>. QED  BY <3>1, <3>2
  <2>. QED  BY <1>1, <1>2, <2>3, <2>4, <2>6 DEF Inductive, Transfers, frontend_vars
<1>. QED  BY <1>3, <1>4, <1>5, <1>6 DEF Inductive

-----------------------------------------------------------------------------
(***************************************************************************)
(* The steps of the frontend.                                              *)
(***************************************************************************)

\* It takes the first message.
LEMMA FrontTaken ==
    ASSUME Inductive, to_front # <<>>, to_front' = Tail(to_front), backend' = backend
    PROVE  /\ Queue \in Seq(Messages) /\ Queue # <<>> /\ Queue[1] = Head(to_front)
           /\ Queue' = Tail(Queue) /\ Len(Queue) \in Nat \ {0} /\ Len(Queue') = Len(Queue) - 1
           /\ \A i \in 1 .. Len(Queue) - 1 : Queue'[i] = Queue[i + 1]
           /\ Framed(Queue') /\ to_front' \in Seq(Messages) /\ Queue[1] \in Messages
           /\ Len(Queue) > 1 => FramedAt(Queue, 1)
           /\ Queue' = <<>> <=> Len(Queue) = 1
           /\ backend.end = "exited" => Whole(Queue') /\ WholeAt(Queue, 1)
           /\ backend.pc # "none" /\ Control /\ (frontend \in {"loop", "looking"} \cup Sending)
<1>. DEFINE q == Queue
<1>1. to_front \in Seq(Messages) /\ backend.outbox \in Seq(Messages) /\ to_front' \in Seq(Messages)
  BY Standing, TailOf DEF BackendState
<1>2. q \in Seq(Messages) /\ q # <<>> /\ q[1] = Head(to_front) /\ q' = Tail(q)
  BY <1>1, QueueOf, Joined DEF Queue
<1>3. Framed(q) /\ (backend.end = "exited" => Whole(q)) /\ backend.pc # "none"
  BY DEF Inductive, Transfers, Control
<1>4. /\ q' \in Seq(Messages) /\ Len(q) \in Nat \ {0} /\ Len(q') = Len(q) - 1 /\ q[1] \in Messages
      /\ \A i \in 1 .. Len(q) - 1 : q'[i] = q[i + 1]
  <2>. DEFINE t == Tail(q)
  <2>1. /\ t \in Seq(Messages) /\ Len(q) \in Nat \ {0} /\ Len(t) = Len(q) - 1 /\ q[1] \in Messages
        /\ \A i \in 1 .. Len(q) - 1 : t[i] = q[i + 1]
    <3>. HIDE DEF q
    <3>. QED  BY <1>2, TailOf
  <2>. QED  BY <1>2, <2>1
<1>5. Framed(q') /\ (backend.end = "exited" => Whole(q'))
  <2>. DEFINE t == Tail(q)
  <2>1. Framed(t) /\ (backend.end = "exited" => Whole(t))
    <3>. HIDE DEF q
    <3>. QED  BY <1>2, <1>3, FramedTail
  <2>. QED  BY <1>2, <2>1
<1>6. Len(q) > 1 => FramedAt(q, 1)
  BY <1>3, <1>4 DEF Framed
<1>7. q' = <<>> <=> Len(q) = 1
  <2>1. q' = <<>> <=> Len(q') = 0
    BY <1>4, EmptySeq
  <2>. QED  BY <1>4, <2>1
<1>8. backend.end = "exited" => WholeAt(q, 1)
  BY <1>3, <1>4 DEF Whole
<1>. QED  BY <1>1, <1>2, <1>3, <1>4, <1>5, <1>6, <1>7, <1>8 DEF Inductive, Transfers

\* The fields of the frontend.
LEMMA TypedFrontend ==
    ASSUME Inductive, to_front' \in Seq(Messages), to_back' \in Seq(Messages),
           \A i \in 1 .. Len(to_back') :
             to_back'[i].type = "CTRL_DATA" => to_back'[i].arg \in 1 .. MaxRuns,
           done' \subseteq Actions, should_run' = should_run, current_running' \in Packages \X Nat,
           state' \in State \cup {NoState}, incoming' \in Entry \cup {NoEntry}, book' \in Seq(Entry),
           UNCHANGED <<backend, history_vars>>
    PROVE  Typed'
BY DEF Inductive, Typed, TypeOK, State, history_vars

\* A message without data is added to the backend's socket.
LEMMA BackAppended ==
    ASSUME Inductive, NEW m \in Messages, m.type # "CTRL_DATA", to_back' = Append(to_back, m)
    PROVE  /\ to_back' \in Seq(Messages)
           /\ \A i \in 1 .. Len(to_back') :
                to_back'[i].type = "CTRL_DATA" => to_back'[i].arg \in 1 .. MaxRuns
<1>1. /\ to_back' \in Seq(Messages) /\ Len(to_back') = Len(to_back) + 1 /\ Len(to_back) \in Nat
      /\ \A i \in 1 .. Len(to_back) : to_back'[i] = to_back[i]
      /\ to_back'[Len(to_back) + 1] = m
  BY Standing, AppendProperties, LenProperties
<1>2. \A i \in 1 .. Len(to_back') : i \in 1 .. Len(to_back) \/ i = Len(to_back) + 1
  BY <1>1
<1>. QED  BY <1>1, <1>2, Standing

\* What the frontend answers.
LEMMA Answers ==
    /\ \A p : Message("CTRL_REQUEST_EL_STATUS", get_element_status(p)) \in Messages
    /\ Inductive /\ send_state =>
         /\ to_back' \in Seq(Messages) /\ state' = NoState
         /\ \A i \in 1 .. Len(to_back') :
              to_back'[i].type = "CTRL_DATA" => to_back'[i].arg \in 1 .. MaxRuns
<1>1. ASSUME NEW p PROVE Message("CTRL_REQUEST_EL_STATUS", get_element_status(p)) \in Messages
  BY DEF Message, Messages, Requests, get_element_status, Statuses
<1>2. ASSUME Inductive, send_state
      PROVE  /\ to_back' \in Seq(Messages)
             /\ \A i \in 1 .. Len(to_back') :
                  to_back'[i].type = "CTRL_DATA" => to_back'[i].arg \in 1 .. MaxRuns
  <2>1. ASSUME NEW r \in Seq(Messages), to_back' = to_back \o r,
               \A i \in 1 .. Len(r) : r[i].type = "CTRL_DATA" => r[i].arg \in 1 .. MaxRuns
        PROVE  /\ to_back' \in Seq(Messages)
               /\ \A i \in 1 .. Len(to_back') :
                    to_back'[i].type = "CTRL_DATA" => to_back'[i].arg \in 1 .. MaxRuns
    <3>1. /\ to_back' \in Seq(Messages) /\ Len(to_back') = Len(to_back) + Len(r)
          /\ \A i \in 1 .. Len(to_back) : to_back'[i] = to_back[i]
          /\ \A i \in 1 .. Len(to_back) + Len(r) :
               i > Len(to_back) => to_back'[i] = r[i - Len(to_back)]
      BY <1>2, <2>1, Standing, Joined
    <3>2. Len(to_back) \in Nat /\ Len(r) \in Nat
      BY <1>2, Standing, LenProperties
    <3>3. ASSUME NEW i \in 1 .. Len(to_back'), i > Len(to_back), to_back'[i].type = "CTRL_DATA"
          PROVE  to_back'[i].arg \in 1 .. MaxRuns
      <4>1. i - Len(to_back) \in 1 .. Len(r)
        BY <3>1, <3>2, <3>3
      <4>. QED  BY <2>1, <3>1, <3>3, <4>1
    <3>4. ASSUME NEW i \in 1 .. Len(to_back'), ~(i > Len(to_back)), to_back'[i].type = "CTRL_DATA"
          PROVE  to_back'[i].arg \in 1 .. MaxRuns
      <4>1. i \in 1 .. Len(to_back)
        BY <3>1, <3>2, <3>4
      <4>. QED  BY <1>2, <3>1, <3>4, <4>1, Standing
    <3>. QED  BY <3>1, <3>3, <3>4
  <2>2. CASE state # NoState /\ state.pkg = PackageOf(current_running)
    <3>. DEFINE m == Plain("CTRL_SENDING_STATE")
                n == Message("CTRL_DATA", state.stamp)
                o == Plain("CTRL_DATA_SENT")
                r == <<m, n, o>>
    <3>1. state.stamp \in 1 .. MaxRuns
      BY <1>2, <2>2 DEF Inductive, Typed, TypeOK
    <3>2. m \in Messages /\ m.type # "CTRL_DATA" /\ o \in Messages /\ o.type # "CTRL_DATA"
      BY DEF Plain, Message, Messages, Sending
    <3>3. n \in Messages
      <4>1. state.stamp \in 0 .. MaxRuns
        BY <1>2, <3>1, Standing
      <4>. QED  BY <4>1 DEF Message, Messages
    <3>4. n.arg \in 1 .. MaxRuns
      BY <3>1 DEF Message
    <3>5. to_back' = to_back \o r
      BY <1>2, <2>2 DEF send_state
    <3>. HIDE DEF m, n, o
    <3>6. r \in Seq(Messages) /\ Len(r) = 3 /\ r[1] = m /\ r[2] = n /\ r[3] = o
      BY <3>2, <3>3, ThreeMessages
    <3>. HIDE DEF r
    <3>7. \A i \in 1 .. Len(r) : r[i].type = "CTRL_DATA" => r[i].arg \in 1 .. MaxRuns
      <4>1. \A i \in 1 .. 3 : i = 1 \/ i = 2 \/ i = 3
        OBVIOUS
      <4>. QED  BY <3>2, <3>4, <3>6, <4>1
    <3>. QED  BY <2>1, <3>5, <3>6, <3>7
  <2>3. CASE ~(state # NoState /\ state.pkg = PackageOf(current_running))
    <3>. DEFINE m == Plain("CTRL_NO_STATE")
                r == <<m>>
    <3>1. m \in Messages /\ m.type # "CTRL_DATA"
      BY DEF Plain, Message, Messages, NoContent
    <3>2. to_back' = to_back \o r
      BY <1>2, <2>3 DEF send_state, NoStateAnswer
    <3>. HIDE DEF m
    <3>3. r \in Seq(Messages) /\ \A i \in 1 .. Len(r) : r[i].type # "CTRL_DATA"
      BY <3>1
    <3>. HIDE DEF r
    <3>. QED  BY <2>1, <3>2, <3>3
  <2>. QED  BY <2>2, <2>3
<1>. QED  BY <1>1, <1>2 DEF send_state

\* The first message is that of a transfer: the frontend begins to read it.
LEMMA BeginsTransfer ==
    ASSUME Inductive, to_front # <<>>, to_front' = Tail(to_front), ~InHand(frontend),
           Queue[1].type \in Sending, frontend' = Queue[1].type,
           UNCHANGED <<incoming, book, backend, tries>>,
           frontend' = "CTRL_SENDING_FILES_FILE" => FALSE
    PROVE  Transfers' /\ Complete'
<1>. DEFINE q == Queue
<1>1. /\ q \in Seq(Messages) /\ q # <<>> /\ q' = Tail(q) /\ Len(q) \in Nat \ {0} /\ Len(q') = Len(q) - 1
      /\ \A i \in 1 .. Len(q) - 1 : q'[i] = q[i + 1]
      /\ Framed(q') /\ (Len(q) > 1 => FramedAt(q, 1)) /\ (q' = <<>> <=> Len(q) = 1)
      /\ backend.end = "exited" => Whole(q') /\ WholeAt(q, 1)
  BY FrontTaken
<1>2. book \in Seq(Entry) /\ tries \in Seq(Packages)
  BY DEF Inductive, Typed, TypeOK
<1>3. frontend' \in {"CTRL_SENDING_LOG_FILE", "CTRL_SENDING_STATE"} /\ frontend' = q[1].type
  BY DEF Sending
<1>4. Inductive /\ Queue' = q'
  OBVIOUS
<1>. HIDE DEF q
<1>5. q' # <<>> => /\ q'[1] = q[2] /\ FramedAt(q, 1)
                   /\ Len(q') >= 3 => q'[3] = q[4] /\ 4 <= Len(q)
  BY <1>1
<1>6. q' # <<>> => DataIsNext(frontend', q')
  BY <1>3, <1>5 DEF FramedAt, DataIsNext, IsLog, Sending
<1>7. Fits(frontend', incoming', q')
  BY <1>3, <1>6 DEF Fits
<1>8. backend.end = "exited" => Awaited(frontend', incoming', q')
  <2>1. SUFFICES ASSUME backend.end = "exited" PROVE Awaited(frontend', incoming', q')
    OBVIOUS
  <2>2. 3 <= Len(q) /\ q' # <<>> /\ q'[1] = q[2] /\ q'[1].type = "CTRL_DATA"
    BY <1>1, <1>3, <1>5, <2>1 DEF WholeAt, FramedAt, Sending
  <2>3. IsLog(q, 1) /\ q[2].arg.find = "yes" => Len(q') >= 3
    BY <1>1, <2>1 DEF WholeAt
  <2>. QED  BY <1>3, <2>2, <2>3 DEF Awaited, IsLog
<1>9. Transfers'
  <2>1. frontend' \in {"loop", "looking"} \cup Sending
    BY <1>3 DEF Sending
  <2>. QED  BY <1>1, <1>4, <1>7, <1>8, <2>1 DEF Transfers
<1>10. ASSUME backend.end = "exited" PROVE Account(q', frontend', incoming', book', backend'.logs, tries')
  <2>1. Account(q, frontend, incoming, book, backend.logs, tries)
    BY <1>4, <1>10 DEF Inductive, Complete, q
  <2>2. /\ q' # <<>> /\ q'[1] = q[2] /\ q'[1].type = "CTRL_DATA"
        /\ IsLog(q, 1) => q[2].arg.pkg = q[1].arg
    BY <1>1, <1>3, <1>5, <1>10 DEF WholeAt, FramedAt, Sending
  <2>3. CASE IsLog(q, 1)
    <3>1. frontend' = "CTRL_SENDING_LOG_FILE"
      BY <1>3, <2>3 DEF IsLog
    <3>2. InHand(frontend') /\ PkgInHand(frontend', incoming', q') = q[1].arg
      BY <2>2, <2>3, <3>1 DEF InHand, PkgInHand
    <3>. HIDE DEF q
    <3>. QED  BY <1>1, <1>2, <2>1, <2>3, <3>2, AccountTaken
  <2>4. CASE ~IsLog(q, 1)
    <3>1. ~InHand(frontend') /\ InHand(frontend') = InHand(frontend)
      BY <1>3, <2>4 DEF IsLog, InHand
    <3>. QED  BY <1>1, <1>2, <2>1, <2>4, <3>1, AccountDropped
  <2>. QED  BY <2>3, <2>4
<1>. QED  BY <1>4, <1>9, <1>10 DEF Complete

\* The first message is no log and is dropped outside of a transfer.
LEMMA DropsMessage ==
    ASSUME Inductive, to_front # <<>>, to_front' = Tail(to_front), frontend = "loop",
           Queue[1].type # "CTRL_SENDING_LOG_FILE", UNCHANGED <<frontend, incoming, book, backend, tries>>
    PROVE  Transfers' /\ Complete'
<1>1. /\ Queue \in Seq(Messages) /\ Queue # <<>> /\ Queue' = Tail(Queue) /\ Framed(Queue')
      /\ backend.end = "exited" => Whole(Queue')
  BY FrontTaken
<1>2. ~InHand(frontend') /\ frontend' \notin Sending /\ frontend' # "looking" /\ ~IsLog(Queue, 1)
  BY DEF InHand, Sending, IsLog
<1>3. Fits(frontend', incoming', Queue') /\ Awaited(frontend', incoming', Queue')
  BY <1>2 DEF Fits, Awaited
<1>4. Transfers'
  BY <1>1, <1>3 DEF Transfers
<1>5. book \in Seq(Entry) /\ tries \in Seq(Packages)
  BY DEF Inductive, Typed, TypeOK
<1>6. ASSUME backend.end = "exited"
      PROVE  Account(Queue', frontend', incoming', book', backend'.logs, tries')
  <2>1. Account(Queue, frontend, incoming, book, backend.logs, tries)
    BY <1>6 DEF Inductive, Complete
  <2>. QED  BY <1>1, <1>2, <1>5, <2>1, AccountDropped
<1>. QED  BY <1>4, <1>6 DEF Complete

LEMMA HandlesMessage == Inductive /\ handle_ctrl_msg => Inductive'
<1>. SUFFICES ASSUME Inductive, handle_ctrl_msg PROVE Inductive'
  OBVIOUS
<1>. DEFINE msg == Head(to_front)
<1>1. /\ frontend = "loop" /\ to_front # <<>> /\ to_front' = Tail(to_front) /\ ~InHand(frontend)
      /\ UNCHANGED <<should_run, incoming, book, backend, history_vars, tries>>
  BY DEF handle_ctrl_msg, InHand, history_vars
<1>2. /\ Queue[1] = msg /\ msg \in Messages /\ to_front' \in Seq(Messages) /\ backend.pc # "none"
      /\ Control
  BY <1>1, FrontTaken
<1>3. Control'
  BY <1>1, <1>2 DEF Control
<1>4. CASE msg.type \in {"CTRL_SENDING_LOG_FILE", "CTRL_SENDING_STATE"}
  <2>1. frontend' = msg.type /\ UNCHANGED <<current_running, done, state, to_back>>
    BY <1>4 DEF handle_ctrl_msg
  <2>2. Transfers' /\ Complete'
    BY <1>1, <1>2, <1>4, <2>1, BeginsTransfer DEF Sending
  <2>3. Typed'
    BY <1>1, <1>2, <2>1, Standing, TypedFrontend DEF Inductive, Typed, TypeOK, State
  <2>. QED  BY <1>3, <2>2, <2>3 DEF Inductive
<1>5. CASE msg.type \notin {"CTRL_SENDING_LOG_FILE", "CTRL_SENDING_STATE"}
  <2>1. frontend' = frontend
    BY <1>1, <1>5 DEF handle_ctrl_msg
  <2>2. Transfers' /\ Complete'
    BY <1>1, <1>2, <1>5, <2>1, DropsMessage
  <2>3. state \in State \cup {NoState} /\ done \subseteq Actions /\ current_running \in Packages \X Nat
    BY DEF Inductive, Typed, TypeOK, State
  <2>4. after_element(msg.arg) \in State \cup {NoState}
    BY <2>3 DEF after_element
  <2>5. /\ done' \subseteq Actions /\ state' \in State \cup {NoState}
        /\ incoming' \in Entry \cup {NoEntry} /\ book' \in Seq(Entry) /\ should_run' = should_run
    <3>1. done' \subseteq Actions
      BY <2>3 DEF handle_ctrl_msg
    <3>2. state' \in State \cup {NoState}
      BY <2>3, <2>4 DEF handle_ctrl_msg, send_state
    <3>. QED  BY <1>1, <3>1, <3>2 DEF Inductive, Typed, TypeOK
  <2>6. current_running' \in Packages \X Nat
    <3>1. msg.type = "CTRL_ELEMENT_STARTED" => msg.arg \in Packages \X Nat
      BY <1>2 DEF Messages
    <3>. QED  BY <2>3, <3>1 DEF handle_ctrl_msg
  <2>7. /\ to_back' \in Seq(Messages)
        /\ \A i \in 1 .. Len(to_back') :
             to_back'[i].type = "CTRL_DATA" => to_back'[i].arg \in 1 .. MaxRuns
    <3>1. to_back' = to_back \/ send_state \/ \E p : to_back' = Append(to_back, Message("CTRL_REQUEST_EL_STATUS", get_element_status(p)))
      BY DEF handle_ctrl_msg
    <3>2. CASE to_back' = to_back
      BY <3>2, Standing
    <3>3. CASE send_state
      BY <3>3, Answers
    <3>4. ASSUME NEW p, to_back' = Append(to_back, Message("CTRL_REQUEST_EL_STATUS", get_element_status(p)))
          PROVE  /\ to_back' \in Seq(Messages)
                 /\ \A i \in 1 .. Len(to_back') :
                      to_back'[i].type = "CTRL_DATA" => to_back'[i].arg \in 1 .. MaxRuns
      <4>. DEFINE m == Message("CTRL_REQUEST_EL_STATUS", get_element_status(p))
      <4>1. m \in Messages
        BY Answers
      <4>2. m.type # "CTRL_DATA" /\ to_back' = Append(to_back, m)
        BY <3>4 DEF Message
      <4>. HIDE DEF m
      <4>. QED  BY <4>1, <4>2, BackAppended
    <3>. QED  BY <3>1, <3>2, <3>3, <3>4
  <2>8. Typed'
    BY <1>1, <1>2, <2>5, <2>6, <2>7, TypedFrontend
  <2>. QED  BY <1>3, <2>2, <2>8 DEF Inductive
<1>. QED  BY <1>4, <1>5

\* Nothing is left of the fields when the frontend is back in its loop.
LEMMA BackInLoop ==
    ASSUME NEW inc, NEW q
    PROVE  Fits("loop", inc, q) /\ Awaited("loop", inc, q) /\ ~InHand("loop")
BY DEF Fits, Awaited, InHand, Sending

\* The data of a transfer come.
LEMMA ReadsData ==
    ASSUME Inductive, to_front # <<>>, to_front' = Tail(to_front), frontend \in Sending,
           Queue[1].type = "CTRL_DATA", UNCHANGED <<frontend, book, backend, tries>>,
           frontend = "CTRL_SENDING_LOG_FILE" =>
             incoming' \in Entry /\ incoming'.pkg = Queue[1].arg.pkg
               /\ incoming'.find = Queue[1].arg.find,
           frontend = "CTRL_SENDING_FILES_FILE" =>
             incoming' \in Entry /\ incoming'.pkg = incoming.pkg
    PROVE  Transfers' /\ Complete'
<1>. DEFINE q == Queue
<1>1. /\ q \in Seq(Messages) /\ q # <<>> /\ q' = Tail(q) /\ Len(q) \in Nat \ {0} /\ Len(q') = Len(q) - 1
      /\ \A i \in 1 .. Len(q) - 1 : q'[i] = q[i + 1]
      /\ Framed(q') /\ (Len(q) > 1 => FramedAt(q, 1)) /\ (q' = <<>> <=> Len(q) = 1)
      /\ backend.end = "exited" => Whole(q') /\ WholeAt(q, 1)
  BY FrontTaken
<1>2. book \in Seq(Entry) /\ tries \in Seq(Packages)
  BY DEF Inductive, Typed, TypeOK
<1>3. /\ Queue' = q' /\ Fits(frontend, incoming, q)
      /\ backend.end = "exited" => Awaited(frontend, incoming, q)
      /\ backend.end = "exited" => Account(q, frontend, incoming, book, backend.logs, tries)
  BY DEF Inductive, Transfers, Complete
<1>4. q[1].type = "CTRL_DATA"
  OBVIOUS
<1>. HIDE DEF q
<1>5. DataIsNext(frontend, q)
  BY <1>1, <1>3, <1>4 DEF Fits, EndIsNext
<1>6. q' # <<>> => q'[1] = q[2] /\ q'[1].type = "CTRL_DATA_SENT"
  BY <1>1, <1>4 DEF FramedAt
<1>7. Len(q') >= 2 => q'[2] = q[3] /\ Len(q) >= 3
  BY <1>1
<1>8. q' # <<>> => EndIsNext(frontend', incoming', q')
  <2>1. frontend = "CTRL_SENDING_LOG_FILE" /\ incoming'.find = "yes" /\ Len(q') >= 2 =>
          q'[2].type = "CTRL_SENDING_FILES_FILE"
    BY <1>4, <1>5, <1>7 DEF DataIsNext, q
  <2>. QED  BY <1>6, <2>1 DEF EndIsNext
<1>9. Fits(frontend', incoming', q')
  <2>1. frontend \notin {"loop", "looking"}
    BY DEF Sending
  <2>. QED  BY <1>8, <2>1 DEF Fits
<1>10. backend.end = "exited" => q' # <<>> /\ Awaited(frontend', incoming', q')
  <2>1. SUFFICES ASSUME backend.end = "exited" PROVE q' # <<>> /\ Awaited(frontend', incoming', q')
    OBVIOUS
  <2>2. q' # <<>> /\ q'[1].type = "CTRL_DATA_SENT"
    BY <1>1, <1>4, <1>6, <2>1 DEF WholeAt
  <2>3. frontend = "CTRL_SENDING_LOG_FILE" /\ incoming'.find = "yes" => Len(q') >= 2
    BY <1>1, <1>3, <1>4, <2>1 DEF Awaited, q
  <2>. QED  BY <2>2, <2>3 DEF Awaited
<1>11. Transfers'
  BY <1>1, <1>3, <1>9, <1>10 DEF Transfers
<1>12. ASSUME backend.end = "exited" PROVE Account(q', frontend', incoming', book', backend'.logs, tries')
  <2>1. q'[1].type = "CTRL_DATA_SENT" /\ ~IsLog(q, 1)
    BY <1>4, <1>6, <1>10, <1>12 DEF IsLog
  <2>2. InHand(frontend) => PkgInHand(frontend', incoming', q') = PkgInHand(frontend, incoming, q)
    BY <1>4, <2>1 DEF InHand, PkgInHand, Sending, q
  <2>. QED  BY <1>1, <1>2, <1>3, <1>12, <2>1, <2>2, AccountDropped
<1>. QED  BY <1>3, <1>11, <1>12 DEF Complete

\* A transfer ends and what it carried is stored, or not.
LEMMA EndsTransfer ==
    ASSUME Inductive, to_front # <<>>, to_front' = Tail(to_front), frontend \in Sending,
           Queue[1].type = "CTRL_DATA_SENT", frontend' = "loop", UNCHANGED <<backend, tries>>,
           IF InHand(frontend) THEN book' = Append(book, incoming) ELSE UNCHANGED book
    PROVE  Transfers' /\ Complete' /\ (InHand(frontend) => incoming \in Entry)
<1>. DEFINE q == Queue
<1>1. /\ q \in Seq(Messages) /\ q # <<>> /\ q' = Tail(q) /\ Framed(q')
      /\ backend.end = "exited" => Whole(q')
  BY FrontTaken
<1>2. book \in Seq(Entry) /\ tries \in Seq(Packages)
  BY DEF Inductive, Typed, TypeOK
<1>3. /\ Queue' = q' /\ Fits(frontend, incoming, q)
      /\ backend.end = "exited" => Account(q, frontend, incoming, book, backend.logs, tries)
  BY DEF Inductive, Transfers, Complete
<1>4. q[1].type = "CTRL_DATA_SENT" /\ ~IsLog(q, 1)
  BY DEF IsLog
<1>. HIDE DEF q
<1>5. InHand(frontend) => incoming \in Entry
  BY <1>1, <1>3, <1>4 DEF Fits, EndIsNext, DataIsNext, InHand, Sending
<1>6. Transfers'
  BY <1>1, <1>3, BackInLoop DEF Transfers
<1>7. ASSUME backend.end = "exited" PROVE Account(q', "loop", incoming', book', backend'.logs, tries')
  <2>1. Account(q, "loop", incoming', book', backend.logs, tries) /\ book' \in Seq(Entry)
    <3>1. CASE InHand(frontend)
      <4>1. PkgInHand(frontend, incoming, q) = incoming.pkg
        BY <1>4 DEF PkgInHand
      <4>2. book' = Append(book, incoming) /\ book' \in Seq(Entry)
        <5>1. book' = Append(book, incoming) /\ incoming \in Entry
          BY <1>5, <3>1
        <5>. QED  BY <1>2, <5>1, AppendProperties
      <4>. QED  BY <1>1, <1>2, <1>3, <1>5, <1>7, <3>1, <4>1, <4>2, AccountStored, BackInLoop
    <3>2. CASE ~InHand(frontend)
      <4>1. Account(q, frontend, incoming, book, backend.logs, tries)
        BY <1>3, <1>7
      <4>2. AtHand("loop") = 0 /\ AtHand(frontend) = 0 /\ book' = book
        BY <3>2, BackInLoop DEF AtHand
      <4>3. Account(q, "loop", incoming', book, backend.logs, tries)
        BY <3>2, <4>1, <4>2, BackInLoop DEF Account, AccountWith
      <4>. QED  BY <1>2, <4>2, <4>3
    <3>. QED  BY <3>1, <3>2
  <2>2. InHand("loop") = InHand("loop") /\ ~InHand("loop") /\ backend'.logs = backend.logs /\ tries' = tries
    BY BackInLoop
  <2>. QED  BY <1>1, <1>2, <1>4, <2>1, <2>2, AccountDropped
<1>. QED  BY <1>3, <1>5, <1>6, <1>7 DEF Complete

\* A log whose files were found has come: the frontend looks for their list.
LEMMA LooksForFiles ==
    ASSUME Inductive, to_front # <<>>, to_front' = Tail(to_front),
           frontend = "CTRL_SENDING_LOG_FILE", incoming.find = "yes",
           Queue[1].type = "CTRL_DATA_SENT", frontend' = "looking",
           UNCHANGED <<incoming, book, backend, tries>>
    PROVE  Transfers' /\ Complete'
<1>. DEFINE q == Queue
<1>1. /\ q \in Seq(Messages) /\ q # <<>> /\ q' = Tail(q) /\ Len(q) \in Nat \ {0} /\ Len(q') = Len(q) - 1
      /\ \A i \in 1 .. Len(q) - 1 : q'[i] = q[i + 1]
      /\ Framed(q') /\ (q' = <<>> <=> Len(q) = 1)
      /\ backend.end = "exited" => Whole(q')
  BY FrontTaken
<1>2. book \in Seq(Entry) /\ tries \in Seq(Packages)
  BY DEF Inductive, Typed, TypeOK
<1>3. /\ Queue' = q' /\ Fits(frontend, incoming, q)
      /\ backend.end = "exited" => Awaited(frontend, incoming, q)
      /\ backend.end = "exited" => Account(q, frontend, incoming, book, backend.logs, tries)
  BY DEF Inductive, Transfers, Complete
<1>4. q[1].type = "CTRL_DATA_SENT" /\ ~IsLog(q, 1)
  BY DEF IsLog
<1>. HIDE DEF q
<1>5. EndIsNext(frontend, incoming, q)
  BY <1>1, <1>3, <1>4 DEF Fits, DataIsNext, Sending
<1>6. q' # <<>> => q'[1] = q[2] /\ Len(q) >= 2
  BY <1>1
<1>7. Fits(frontend', incoming', q')
  BY <1>5, <1>6 DEF EndIsNext, Fits, Sending
<1>8. backend.end = "exited" => Awaited(frontend', incoming', q')
  BY <1>1, <1>3, <1>4 DEF Awaited
<1>9. Transfers'
  BY <1>1, <1>3, <1>7, <1>8 DEF Transfers
<1>10. /\ InHand(frontend) /\ InHand(frontend')
       /\ PkgInHand(frontend', incoming', Tail(q)) = PkgInHand(frontend, incoming, q)
  BY <1>4 DEF InHand, PkgInHand
<1>11. backend.end = "exited" => Account(q', frontend', incoming', book', backend'.logs, tries')
  BY <1>1, <1>2, <1>3, <1>4, <1>10, AccountDropped
<1>. QED  BY <1>3, <1>9, <1>11 DEF Complete

LEMMA ReadsTransfer == Inductive /\ read_transfer => Inductive'
<1>. SUFFICES ASSUME Inductive, read_transfer PROVE Inductive'
  OBVIOUS
<1>. DEFINE msg == Head(to_front)
<1>1. /\ frontend \in Sending /\ to_front # <<>> /\ to_front' = Tail(to_front)
      /\ UNCHANGED <<done, should_run, current_running, to_back, backend, history_vars, tries>>
  BY DEF read_transfer, Sending, history_vars
<1>2. /\ Queue[1] = msg /\ msg \in Messages /\ to_front' \in Seq(Messages) /\ backend.pc # "none"
      /\ Control /\ Queue # <<>>
  BY <1>1, FrontTaken
<1>3. Control'
  BY <1>1, <1>2 DEF Control
<1>4. Fits(frontend, incoming, Queue)
  BY DEF Inductive, Transfers
<1>5. /\ state \in State \cup {NoState} /\ book \in Seq(Entry) /\ incoming \in Entry \cup {NoEntry}
      /\ done \subseteq Actions /\ current_running \in Packages \X Nat
  BY DEF Inductive, Typed, TypeOK, State
<1>6. ASSUME state' \in State \cup {NoState}, book' \in Seq(Entry), incoming' \in Entry \cup {NoEntry}
      PROVE  Typed'
  BY <1>1, <1>2, <1>5, <1>6, Standing, TypedFrontend
<1>7. CASE msg.type = "CTRL_DATA"
  <2>1. DataIsNext(frontend, Queue) /\ UNCHANGED <<frontend, book>>
    BY <1>1, <1>2, <1>4, <1>7 DEF Fits, EndIsNext, read_transfer
  <2>2. CASE frontend = "CTRL_SENDING_LOG_FILE"
    <3>1. msg.arg \in Log /\ UNCHANGED state
      BY <1>2, <1>7, <2>1, <2>2 DEF DataIsNext, Content, read_transfer
    <3>2. incoming' = [NoEntry EXCEPT !.pkg = msg.arg.pkg, !.how = msg.arg.how, !.find = msg.arg.find]
      BY <1>7, <2>2 DEF read_transfer
    <3>. DEFINE a == msg.arg
    <3>3. a \in Log /\ incoming' = [NoEntry EXCEPT !.pkg = a.pkg, !.how = a.how, !.find = a.find]
      BY <3>1, <3>2
    <3>. HIDE DEF a
    <3>4. incoming' \in Entry /\ incoming'.pkg = a.pkg /\ incoming'.find = a.find
      <4>1. /\ a = [pkg |-> a.pkg, how |-> a.how, find |-> a.find] /\ a.pkg \in Packages
            /\ a.how \in {"ended", "failed", "stopped"} /\ a.find \in {"no", "failed", "yes"}
        BY <3>3 DEF Log
      <4>2. 0 \in 0 .. MaxRuns
        BY PackageAssumption
      <4>3. incoming' = [pkg |-> a.pkg, how |-> a.how, find |-> a.find, files |-> 0]
        BY <3>3 DEF NoEntry, NoStamp
      <4>. QED  BY <4>1, <4>2, <4>3 DEF Entry
    <3>. QED  BY <1>1, <1>2, <1>3, <1>5, <1>6, <1>7, <2>1, <2>2, <3>1, <3>4, ReadsData DEF Inductive, a
  <2>3. CASE frontend = "CTRL_SENDING_FILES_FILE"
    <3>1. incoming \in Entry /\ msg.arg \in 0 .. MaxRuns /\ UNCHANGED state
      BY <1>2, <1>4, <1>7, <2>1, <2>3 DEF DataIsNext, Content, Fits, read_transfer
    <3>2. incoming' = [incoming EXCEPT !.files = msg.arg]
      BY <1>7, <2>3 DEF read_transfer
    <3>3. incoming' \in Entry /\ incoming'.pkg = incoming.pkg
      BY <3>1, <3>2 DEF Entry
    <3>. QED  BY <1>1, <1>2, <1>3, <1>5, <1>6, <1>7, <2>1, <2>3, <3>1, <3>3, ReadsData DEF Inductive
  <2>4. CASE frontend = "CTRL_SENDING_STATE"
    <3>1. state' = msg.arg /\ msg.arg \in State /\ UNCHANGED incoming
      BY <1>2, <1>7, <2>1, <2>4 DEF DataIsNext, Content, read_transfer
    <3>. QED  BY <1>1, <1>2, <1>3, <1>5, <1>6, <1>7, <2>1, <2>4, <3>1, ReadsData DEF Inductive
  <2>. QED  BY <1>1, <2>2, <2>3, <2>4 DEF Sending
<1>8. CASE msg.type = "CTRL_DATA_SENT"
  <2>1. EndIsNext(frontend, incoming, Queue) /\ UNCHANGED state
    BY <1>1, <1>2, <1>4, <1>8 DEF Fits, DataIsNext, read_transfer
  <2>2. CASE frontend = "CTRL_SENDING_LOG_FILE" /\ incoming.find = "yes"
    <3>1. frontend' = "looking" /\ UNCHANGED <<book, incoming>>
      BY <1>8, <2>2 DEF read_transfer
    <3>2. Transfers' /\ Complete'
      BY <1>1, <1>2, <1>8, <2>2, <3>1, LooksForFiles
    <3>. QED  BY <1>3, <1>5, <1>6, <2>1, <3>1, <3>2 DEF Inductive
  <2>3. CASE ~(frontend = "CTRL_SENDING_LOG_FILE" /\ incoming.find = "yes")
    <3>1. /\ frontend' = "loop"
          /\ IF InHand(frontend) THEN store(incoming) ELSE UNCHANGED <<book, incoming>>
      BY <1>1, <1>8, <2>3 DEF read_transfer, InHand, Sending, store
    <3>2. IF InHand(frontend) THEN book' = Append(book, incoming) ELSE UNCHANGED book
      BY <3>1 DEF store
    <3>3. Transfers' /\ Complete' /\ (InHand(frontend) => incoming \in Entry)
      BY <1>1, <1>2, <1>8, <3>1, <3>2, EndsTransfer
    <3>4. book' \in Seq(Entry) /\ incoming' \in Entry \cup {NoEntry}
      BY <1>5, <3>1, <3>3, AppendProperties DEF store
    <3>. QED  BY <1>3, <1>5, <1>6, <2>1, <3>3, <3>4 DEF Inductive
  <2>. QED  BY <2>2, <2>3
<1>. QED  BY <1>1, <1>2, <1>4, <1>7, <1>8 DEF Fits, DataIsNext, EndIsNext

\* The one read of receive_changed_files() finds the list, or the log is stored
\* as it is.
LEMMA ReceivesFiles == Inductive /\ receive_changed_files => Inductive'
<1>. SUFFICES ASSUME Inductive, receive_changed_files PROVE Inductive'
  OBVIOUS
<1>. DEFINE q == Queue
<1>1. /\ frontend = "looking" /\ InHand(frontend)
      /\ UNCHANGED <<done, should_run, current_running, state, to_back, backend, history_vars, tries>>
  BY DEF receive_changed_files, InHand, history_vars
<1>2. /\ state \in State \cup {NoState} /\ book \in Seq(Entry) /\ tries \in Seq(Packages)
      /\ done \subseteq Actions /\ current_running \in Packages \X Nat
  BY DEF Inductive, Typed, TypeOK, State
<1>3. /\ Fits(frontend, incoming, q) /\ incoming \in Entry
      /\ backend.end = "exited" => Awaited(frontend, incoming, q)
      /\ backend.end = "exited" => Account(q, frontend, incoming, book, backend.logs, tries)
      /\ q # <<>> => q[1].type = "CTRL_SENDING_FILES_FILE"
  BY <1>1 DEF Inductive, Transfers, Complete, Fits
<1>4. CASE to_front # <<>>
  <2>0. to_front' = Tail(to_front)
    BY <1>4 DEF receive_changed_files
  <2>1. /\ q \in Seq(Messages) /\ q # <<>> /\ q' = Tail(q) /\ Len(q) \in Nat \ {0} /\ Len(q') = Len(q) - 1
        /\ \A i \in 1 .. Len(q) - 1 : q'[i] = q[i + 1]
        /\ Framed(q') /\ (Len(q) > 1 => FramedAt(q, 1)) /\ (q' = <<>> <=> Len(q) = 1)
        /\ backend.end = "exited" => Whole(q') /\ WholeAt(q, 1)
        /\ q[1] = Head(to_front) /\ to_front' \in Seq(Messages) /\ Control /\ backend.pc # "none"
    BY <1>1, <1>4, <2>0, FrontTaken
  <2>2. Queue' = q'
    OBVIOUS
  <2>3. q[1].type = "CTRL_SENDING_FILES_FILE" /\ ~IsLog(q, 1)
    BY <1>3, <2>1 DEF IsLog
  <2>4. frontend' = "CTRL_SENDING_FILES_FILE" /\ UNCHANGED <<book, incoming>>
    BY <1>4, <2>1, <2>3 DEF receive_changed_files
  <2>. HIDE DEF q
  <2>5. q' # <<>> => q'[1] = q[2] /\ DataIsNext(frontend', q')
    BY <2>1, <2>3, <2>4 DEF FramedAt, DataIsNext, Sending
  <2>6. backend.end = "exited" => q' # <<>>
    BY <2>1, <2>3 DEF WholeAt, Sending
  <2>7. Transfers'
    <3>1. Fits(frontend', incoming', q') /\ frontend' \in Sending
      BY <1>3, <2>4, <2>5 DEF Fits, Sending
    <3>2. backend.end = "exited" => Awaited(frontend', incoming', q')
      BY <2>4, <2>6 DEF Awaited
    <3>. QED  BY <1>1, <2>1, <2>2, <3>1, <3>2 DEF Transfers
  <2>8. Complete'
    <3>1. InHand(frontend') /\ PkgInHand(frontend', incoming', Tail(q)) = PkgInHand(frontend, incoming, q)
      BY <1>1, <2>4 DEF InHand, PkgInHand
    <3>. QED  BY <1>1, <1>2, <1>3, <2>1, <2>2, <2>3, <2>4, <3>1, AccountDropped DEF Complete
  <2>9. Typed'
    BY <1>1, <1>2, <1>3, <2>1, <2>4, Standing, TypedFrontend
  <2>10. Control'
    BY <1>1, <2>1 DEF Control
  <2>. QED  BY <2>7, <2>8, <2>9, <2>10 DEF Inductive
<1>5. CASE to_front = <<>>
  <2>1. to_front' = to_front /\ store(incoming)
    BY <1>5 DEF receive_changed_files
  <2>2. /\ frontend' = "loop" /\ book' = Append(book, incoming) /\ incoming' = NoEntry
        /\ book' \in Seq(Entry)
    BY <1>2, <1>3, <2>1, AppendProperties DEF store
  <2>3. q' = q
    BY <1>1, <2>1 DEF Queue
  <2>4. q \in Seq(Messages) /\ Framed(q) /\ (backend.end = "exited" => Whole(q)) /\ Control
    BY QueueOf, Standing, Joined DEF Inductive, Transfers, Queue, BackendState
  <2>5. Transfers'
    BY <1>1, <2>2, <2>3, <2>4, BackInLoop DEF Transfers
  <2>6. Complete'
    <3>1. PkgInHand(frontend, incoming, q) = incoming.pkg
      BY <1>1 DEF PkgInHand
    <3>2. ASSUME backend.end = "exited" PROVE Account(q, "loop", NoEntry, Append(book, incoming), backend.logs, tries)
      <4>. HIDE DEF q
      <4>. QED  BY <1>1, <1>2, <1>3, <2>4, <3>1, <3>2, AccountStored, BackInLoop
    <3>. QED  BY <1>1, <2>2, <2>3, <3>2 DEF Complete
  <2>7. Typed'
    BY <1>1, <1>2, <2>1, <2>2, Standing, TypedFrontend
  <2>8. Control'
    BY <1>1, <2>1, <2>2, <2>4 DEF Control
  <2>. QED  BY <2>5, <2>6, <2>7, <2>8 DEF Inductive
<1>. QED  BY <1>4, <1>5

\* With nothing sent and nothing tried there is nothing to account for.
LEMMA NothingYet ==
    ASSUME NEW inc
    PROVE  /\ Framed(<<>>) /\ Whole(<<>>) /\ Fits("loop", inc, <<>>) /\ Awaited("loop", inc, <<>>)
           /\ Account(<<>>, "loop", inc, <<>>, NoLog, <<>>)
<1>1. Len(<<>>) = 0
  OBVIOUS
<1>2. Framed(<<>>) /\ Whole(<<>>)
  BY <1>1 DEF Framed, Whole
<1>. DEFINE ix == [i \in 1 .. 0 |-> i]
<1>3. ix \in [1 .. 0 -> 1 .. Len(<<>>)]
  OBVIOUS
<1>4. AtHand("loop") = 0 /\ UnderWay(NoLog) = 0
  BY BackInLoop DEF AtHand, UnderWay
<1>. HIDE DEF ix
<1>5. LogsAre(<<>>, ix, 0, 0, <<>>)
  BY <1>1, <1>3 DEF LogsAre
<1>6. AccountWith(0, ix, <<>>, "loop", inc, <<>>, NoLog, <<>>)
  BY <1>1, <1>4, <1>5, BackInLoop DEF AccountWith
<1>7. Account(<<>>, "loop", inc, <<>>, NoLog, <<>>)
  BY <1>3, <1>6 DEF Account
<1>. QED  BY <1>2, <1>7, BackInLoop

LEMMA Starts ==
    ASSUME Inductive, NEW scheduled \in SUBSET Actions, start_executing(scheduled)
    PROVE  Inductive'
<1>1. /\ frontend' = "loop" /\ to_front' = <<>> /\ to_back' = <<>> /\ book' = <<>> /\ tries' = <<>>
      /\ backend' = [NoBackend EXCEPT !.pc = "listen_first"] /\ run' = run + 1 /\ run < MaxRuns
      /\ should_run' = scheduled /\ done' = done \ scheduled /\ current_running' = <<1, 0>>
      /\ UNCHANGED <<state, incoming>>
  BY DEF start_executing
<1>2. /\ backend' \in BackendState /\ backend'.pc = "listen_first" /\ backend'.outbox = <<>>
      /\ backend'.logs = NoLog /\ backend'.end = "exited"
  <2>1. <<>> \in Seq(Messages)
    OBVIOUS
  <2>2. 1 \in 1 .. NumPackages + 1 /\ NoStamp \in 0 .. MaxRuns /\ Method \in Methods
    BY PackageAssumption DEF NoStamp, Methods
  <2>. QED  BY <1>1, <2>1, <2>2 DEF BackendState, NoBackend, Living
<1>3. <<1, 0>> \in Packages \X Nat /\ run' \in 0 .. MaxRuns
  BY <1>1, Standing, PackageAssumption DEF Packages
<1>4. Typed'
  <2>1. /\ state \in [pkg : Packages, stamp : 1 .. MaxRuns] \cup {NoState}
        /\ incoming \in Entry \cup {NoEntry} /\ done \subseteq Actions
    BY DEF Inductive, Typed, TypeOK
  <2>2. <<>> \in Seq(Messages) /\ <<>> \in Seq(Entry) /\ <<>> \in Seq(Packages) /\ Len(<<>>) = 0
    OBVIOUS
  <2>3. TypeOK'
    BY <1>1, <1>2, <1>3, <2>1, <2>2 DEF TypeOK, BackendState
  <2>4. backend' \in BackendState /\ to_front' \in Seq(Messages) /\ to_back' \in Seq(Messages)
        /\ tries' \in Seq(Packages) /\ run' \in 0 .. MaxRuns
    BY <1>1, <1>2, <1>3, <2>2
  <2>5. \A i \in 1 .. Len(to_back') : FALSE
    BY <1>1, <2>2
  <2>. QED  BY <2>3, <2>4, <2>5 DEF Typed
<1>5. Control'
  BY <1>2 DEF Control, InPackage, Living, Listening
<1>6. Queue' = <<>>
  BY <1>1, <1>2 DEF Queue
<1>7. Transfers' /\ Complete'
  BY <1>1, <1>2, <1>6, NothingYet DEF Transfers, Complete
<1>. QED  BY <1>4, <1>5, <1>7 DEF Inductive

LEMMA Sends ==
    ASSUME Inductive, NEW c \in Keys, send_command(c)
    PROVE  Inductive'
<1>1. UNCHANGED <<frontend_vars, to_front, backend, run, tries>> /\ to_back' = Append(to_back, Plain(c))
  BY DEF send_command
<1>. DEFINE m == Plain(c)
<1>2. m \in Messages /\ m.type # "CTRL_DATA" /\ to_back' = Append(to_back, m)
  <2>1. c \in NoContent /\ c # "CTRL_DATA" /\ c # "CTRL_ELEMENT_STARTED"
    BY PackageAssumption DEF NoContent
  <2>2. m = [type |-> c, arg |-> ""] /\ to_back' = Append(to_back, m)
    BY <1>1 DEF Plain, Message
  <2>. HIDE DEF m
  <2>3. m \in Messages
    BY <2>1, <2>2 DEF Messages
  <2>. QED  BY <2>1, <2>2, <2>3
<1>. HIDE DEF m
<1>3. Typed'
  BY <1>1, <1>2, BackAppended, Standing, TypedBackend DEF Inductive
<1>4. Control' /\ Transfers' /\ Complete'
  BY <1>1 DEF Inductive, Control, Transfers, Complete, Queue, frontend_vars
<1>. QED  BY <1>3, <1>4 DEF Inductive

LEMMA Waits == Inductive /\ wait_for_the_backend => Inductive'
<1>. SUFFICES ASSUME Inductive, wait_for_the_backend PROVE Inductive'
  OBVIOUS
<1>1. /\ frontend = "loop" /\ backend.pc = "dead" /\ to_front = <<>>
      /\ backend' = [backend EXCEPT !.pc = "none"] /\ should_run' = {} /\ done' \subseteq done
      /\ UNCHANGED <<current_running, state, frontend, incoming, book, to_front, to_back, run, tries>>
  BY DEF wait_for_the_backend, history_vars
<1>2. /\ backend' \in BackendState /\ backend'.pc = "none" /\ backend'.outbox = backend.outbox
      /\ backend'.logs = backend.logs /\ backend'.end = backend.end
  BY <1>1, Standing DEF BackendState
<1>3. Typed'
  BY <1>1, <1>2 DEF Inductive, Typed, TypeOK
<1>4. Control'
  BY <1>1, <1>2 DEF Inductive, Control, InPackage, Living, Listening
<1>5. Transfers' /\ Complete'
  BY <1>1, <1>2 DEF Inductive, Transfers, Complete, Queue
<1>. QED  BY <1>3, <1>4, <1>5 DEF Inductive

LEMMA InductiveHolds == Spec => []Inductive
<1>1. Init => Inductive
  <2>. SUFFICES ASSUME Init PROVE Inductive
    OBVIOUS
  <2>1. /\ NoBackend \in BackendState /\ NoBackend.pc = "none" /\ NoBackend.outbox = <<>>
        /\ NoBackend.logs = NoLog /\ NoBackend.end = "exited"
    <3>1. <<>> \in Seq(Messages)
      OBVIOUS
    <3>2. 1 \in 1 .. NumPackages + 1 /\ NoStamp \in 0 .. MaxRuns /\ Method \in Methods
      BY PackageAssumption DEF NoStamp, Methods
    <3>. QED  BY <3>1, <3>2 DEF BackendState, NoBackend
  <2>2. <<1, 0>> \in Packages \X Nat /\ 0 \in 0 .. MaxRuns
    BY PackageAssumption DEF Packages
  <2>3. <<>> \in Seq(Messages) /\ <<>> \in Seq(Entry) /\ <<>> \in Seq(Packages) /\ Len(<<>>) = 0
    OBVIOUS
  <2>4. TypeOK
    BY <2>1, <2>2, <2>3 DEF Init, TypeOK, BackendState
  <2>5. backend \in BackendState /\ to_front \in Seq(Messages) /\ to_back \in Seq(Messages)
        /\ tries \in Seq(Packages) /\ run \in 0 .. MaxRuns /\ \A i \in 1 .. Len(to_back) : FALSE
    BY <2>1, <2>2, <2>3 DEF Init
  <2>6. Typed
    BY <2>4, <2>5 DEF Typed
  <2>7. Control
    BY <2>1 DEF Init, Control, InPackage, Living, Listening
  <2>8. Queue = <<>>
    BY <2>1 DEF Init, Queue
  <2>9. Transfers /\ Complete
    BY <2>1, <2>8, NothingYet DEF Init, Transfers, Complete
  <2>. QED  BY <2>6, <2>7, <2>9 DEF Inductive
<1>2. Inductive /\ [Next]_vars => Inductive'
  <2>1. Inductive /\ UNCHANGED vars => Inductive'
    BY DEF vars, frontend_vars, history_vars, Inductive, Typed, TypeOK, Control, Transfers, Complete, Queue
  <2>2. Inductive /\ Frontend => Inductive'
    BY HandlesMessage, ReadsTransfer, ReceivesFiles, Waits DEF Frontend
  <2>3. Inductive /\ Backend => Inductive'
    BY StartsPackage, RequestsState, ReceivesState, ChecksRequires, StartsAction, EndsLogging,
       LearnsStatus, SendsOutbox, EndsPackage, ReadsCommands DEF Backend
  <2>4. Inductive /\ (Command \/ signal_io \/ kill) => Inductive'
    BY EndsAction, CollectsFiles, ReadsCommands, Killed DEF Command
  <2>. QED  BY <2>1, <2>2, <2>3, <2>4, Starts, Sends DEF Next
<1>. QED  BY <1>1, <1>2, PTL DEF Spec

-----------------------------------------------------------------------------
\* The states of frontend and backend, and what is in the sockets and in the
\* state file, are of their types, for any profile, any commands and runs.
THEOREM TypesHold == Spec => []TypeOK
<1>1. Inductive => TypeOK
  BY DEF Inductive, Typed
<1>. QED  BY <1>1, InductiveHolds, PTL

\* When the frontend has waited for a backend that was not killed and did not
\* crash, the log entries of the run are those of the packages the backend has
\* begun to log, each once and in order, however their actions, a stop and the
\* messages of both sides have followed each other.
THEOREM LogsHold == Spec => []LogsAreComplete
<1>1. Inductive => LogsAreComplete
  <2>. SUFFICES ASSUME Inductive, backend.pc = "none", backend.end = "exited" PROVE Booked = tries
    BY DEF LogsAreComplete
  <2>1. /\ frontend = "loop" /\ to_front = <<>> /\ backend.outbox = <<>> /\ backend.logs = NoLog
        /\ Account(Queue, frontend, incoming, book, backend.logs, tries)
    BY DEF Inductive, Control, Complete, InPackage
  <2>2. Queue = <<>>
    BY <2>1 DEF Queue
  <2>3. PICK k \in Nat : \E ix \in [1 .. k -> 1 .. Len(<<>>)] :
          AccountWith(k, ix, <<>>, "loop", incoming, book, NoLog, tries)
    BY <2>1, <2>2 DEF Account
  <2>4. PICK ix \in [1 .. k -> 1 .. Len(<<>>)] :
          AccountWith(k, ix, <<>>, "loop", incoming, book, NoLog, tries)
    BY <2>3
  <2>5. k = 0
    <3>1. SUFFICES ASSUME k # 0 PROVE FALSE
      OBVIOUS
    <3>2. 1 \in 1 .. k /\ Len(<<>>) = 0
      BY <3>1
    <3>3. ix[1] \in 1 .. 0
      BY <2>4, <3>2
    <3>. QED  BY <3>3
  <2>6. AtHand("loop") = 0 /\ UnderWay(NoLog) = 0 /\ Len(book) \in Nat
    BY BackInLoop, LenProperties DEF AtHand, UnderWay, Inductive, Typed, TypeOK
  <2>7. Len(tries) = Len(book) /\ \A i \in 1 .. Len(book) : book[i].pkg = tries[i]
    BY <2>4, <2>5, <2>6 DEF AccountWith
  <2>8. tries \in Seq(Packages) /\ book \in Seq(Entry)
    BY DEF Inductive, Typed, TypeOK
  <2>9. DOMAIN book = 1 .. Len(book) /\ DOMAIN tries = 1 .. Len(book)
    BY <2>7, <2>8, LenProperties
  <2>10. tries = [i \in 1 .. Len(book) |-> tries[i]]
    BY <2>8, <2>9
  <2>. QED  BY <2>7, <2>9, <2>10 DEF Booked
<1>. QED  BY <1>1, InductiveHolds, PTL
=============================================================================
