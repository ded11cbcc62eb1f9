--------------------------- MODULE FileUploadProofs ---------------------------
(***************************************************************************)
(* Theorems about FileUpload, for any number of uploads, seconds and       *)
(* faults.                                                                 *)
(***************************************************************************)
EXTENDS FileUpload, TLAPS

\* Only an image of a supported type gets as far as a name; the clock runs.
TypeInv ==
    /\ TypeOK
    /\ \A r \in Requests : srv[r] = "name" => kind[r] \in Extensions
    /\ now >= 1

LEMMA NoNameType == NoName \in Names
BY DEF NoName, Names

LEMMA InitTypeInv == Init => TypeInv
<1> SUFFICES ASSUME Init PROVE TypeInv
  OBVIOUS
<1>1. UploadsOK
  BY DEF Init, UploadsOK
<1>2. ServerOK
  BY NoNameType DEF Init, ServerOK
<1>3. now \in Nat /\ now >= 1 /\ faults \in Nat
  <2>1. now = 1 /\ faults = 0
    BY DEF Init
  <2> QED
    BY <2>1
<1>4. stepped \in BOOLEAN /\ quick \in BOOLEAN
  BY Zenon DEF Init
<1>5. \A r \in Requests : srv[r] # "name"
  BY DEF Init
<1> QED
  BY <1>1, <1>2, <1>3, <1>4, <1>5 DEF TypeInv, TypeOK

LEMMA StepTypeInv == TypeInv /\ [Next]_vars => TypeInv'
<1> SUFFICES ASSUME TypeInv, [Next]_vars
             PROVE  TypeInv'
  OBVIOUS
<1> USE DEF TypeInv, TypeOK
<1>1. ASSUME NEW r \in Requests, UploadStep(r)
      PROVE  TypeInv'
  <2>1. /\ up' \in [Requests -> {"new", "connecting", "sending", "reading", "posted",
                                 "refused", "failed"}]
        /\ pump' \in [Requests -> {"none", "part", "content", "boundary", "ended"}]
        /\ pipe' \in [Requests -> {"none", "unread", "read", "eof", "closed", "failed"}]
        /\ srv' \in {srv, [srv EXCEPT ![r] = "parse"]}
        /\ faults' \in Nat
        /\ UNCHANGED <<kind, name, dst, diskVars, nameVars, clockVars>>
    BY <1>1, UploadAssumption DEF UploadStep, StartUpload, RejectUpload, NewRequestFails,
       Connect, DoFails, DoReturns, PostImage, CloseReader, Fault, UploadsOK, serverVars
  <2>2. ServerOK'
    BY <2>1 DEF ServerOK, diskVars, nameVars
  <2> QED
    BY <2>1, <2>2 DEF UploadsOK, ServerOK, clockVars
<1>2. ASSUME NEW r \in Requests, PumpStep(r)
      PROVE  TypeInv'
  <2>1. /\ pump' \in [Requests -> {"none", "part", "content", "boundary", "ended"}]
        /\ pipe' \in [Requests -> {"none", "unread", "read", "eof", "closed", "failed"}]
        /\ faults' \in Nat
        /\ UNCHANGED <<up, kind, serverVars, diskVars, nameVars, clockVars>>
    BY <1>2, UploadAssumption DEF PumpStep, Write, PumpStops, SourceFails, NextWrite,
       Fault, UploadsOK
  <2> QED
    BY <2>1 DEF UploadsOK, ServerOK, serverVars, diskVars, nameVars, clockVars
<1>3. ASSUME NEW r \in Requests, generateFilename(r)
      PROVE  TypeInv'
  <2> DEFINE seq == IF now # lastUnixSec THEN 0 ELSE seqNum
             n == [sec |-> now, seq |-> seq, ext |-> kind[r]]
  <2>1. /\ srv[r] = "name" /\ srv' = [srv EXCEPT ![r] = "create"]
        /\ lastUnixSec' = now /\ seqNum' = seq + 1
        /\ name' = [name EXCEPT ![r] = n]
        /\ UNCHANGED <<webappVars, dst, diskVars, clockVars, faults>>
    BY <1>3, Zenon DEF generateFilename, Serve
  <2>2. n \in Names /\ seq + 1 \in Nat
    BY <2>1 DEF Names, ServerOK
  <2>3. ServerOK'
    <3> HIDE DEF n, seq
    <3> QED
      BY <2>1, <2>2 DEF ServerOK, diskVars
  <2>4. UploadsOK' /\ UNCHANGED <<kind, now, stepped, quick, faults>>
    BY <2>1 DEF webappVars, clockVars, UploadsOK
  <2> QED
    BY <2>1, <2>3, <2>4 DEF ServerOK
<1>4. ASSUME NEW r \in Requests,
             \/ FormFile(r) \/ FormFileFails(r) \/ CheckType(r) \/ CreateFile(r)
             \/ CreateFails(r) \/ Copy(r) \/ CopyFails(r)
      PROVE  TypeInv'
  <2>1. /\ \E s \in {"check", "refused", "name", "copy", "created"} :
              /\ srv' = [srv EXCEPT ![r] = s]
              /\ s = "name" => kind[r] \in Extensions
        /\ faults' \in Nat
        /\ UNCHANGED <<webappVars, name, nameVars, clockVars>>
    BY <1>4, UploadAssumption DEF FormFile, FormFileFails, CheckType, CreateFile,
       CreateFails, Copy, CopyFails, Serve, Fault, serverVars
  <2>2. srv' \in [Requests -> {"none", "parse", "check", "name", "create", "copy",
                               "created", "refused", "gone"}]
    BY <2>1 DEF ServerOK
  <2>3. /\ dst' \in [Requests -> Names] /\ dir' \subseteq Names /\ written' \subseteq Names \X Requests
        /\ ignored' \subseteq Requests
    BY <1>4, NoNameType DEF FormFile, FormFileFails, CheckType, CreateFile, CreateFails,
       Copy, CopyFails, Remove, ServerOK, diskVars
  <2>4. ServerOK'
    BY <2>1, <2>2, <2>3 DEF ServerOK, nameVars
  <2>5. UploadsOK' /\ UNCHANGED <<kind, now, stepped, quick>>
    BY <2>1 DEF webappVars, clockVars, UploadsOK
  <2>6. \A s \in Requests : srv'[s] = "name" => kind[s] \in Extensions
    BY <2>1 DEF ServerOK
  <2>7. now' \in Nat /\ now' >= 1 /\ faults' \in Nat
    BY <2>1, <2>5
  <2>8. stepped' \in BOOLEAN /\ quick' \in BOOLEAN
    BY <2>5
  <2> QED
    BY <2>4, <2>5, <2>6, <2>7, <2>8
<1>5. CASE Restart
  <2>1. ServerOK'
    BY <1>5, NoNameType DEF Restart, ServerOK, diskVars
  <2> QED
    BY <1>5, <2>1, UploadAssumption DEF Restart, Fault, UploadsOK, ServerOK, webappVars
<1>6. CASE Tick \/ SetBack
  <2>1. now' \in Nat /\ now' >= 1 /\ faults' \in Nat
    BY <1>6, UploadAssumption DEF Tick, SetBack, Fault
  <2>2. stepped' \in BOOLEAN /\ UNCHANGED quick
    BY <1>6, Zenon DEF Tick, SetBack
  <2>3. UNCHANGED <<webappVars, serverVars, diskVars, nameVars>>
    BY <1>6 DEF Tick, SetBack
  <2> QED
    BY <2>1, <2>2, <2>3 DEF UploadsOK, ServerOK, webappVars, serverVars, diskVars, nameVars
<1>7. CASE UNCHANGED vars
  BY <1>7 DEF vars, UploadsOK, ServerOK, webappVars, serverVars, diskVars, nameVars, clockVars
<1> QED
  BY <1>1, <1>2, <1>3, <1>4, <1>5, <1>6, <1>7 DEF Next, ServerStep

\* Every variable keeps its type; the name of a stored file ends in the type the
\* file was found to have.
THEOREM TypeCorrect == Spec => []TypeOK
<1>1. TypeInv => TypeOK
  BY DEF TypeInv
<1> QED
  BY <1>1, InitTypeInv, StepTypeInv, PTL DEF Spec

-----------------------------------------------------------------------------
(* Names are distinct.                                                     *)

\* The counter is past every name of the current second.
CounterIsAhead ==
    \A r \in Requests : name[r] # NoName =>
        /\ name[r].sec <= now
        /\ name[r].sec = now => lastUnixSec = now /\ name[r].seq < seqNum

NamesInv == /\ NamesAreDistinct
            /\ ~ stepped /\ ~ quick => CounterIsAhead

LEMMA InitNames == Init => NamesInv
BY DEF Init, NamesInv, NamesAreDistinct, CounterIsAhead

LEMMA SameNames ==
    ASSUME NamesInv, UNCHANGED <<name, nameVars, clockVars>>
    PROVE  NamesInv'
BY DEF NamesInv, NamesAreDistinct, CounterIsAhead, nameVars, clockVars

LEMMA generateFilenameNames ==
    ASSUME TypeInv, NamesInv, NEW r \in Requests, generateFilename(r)
    PROVE  NamesInv'
<1> DEFINE seq == IF now # lastUnixSec THEN 0 ELSE seqNum
           n == [sec |-> now, seq |-> seq, ext |-> kind[r]]
<1>1. /\ lastUnixSec' = now /\ seqNum' = seq + 1
      /\ name' = [name EXCEPT ![r] = n]
      /\ UNCHANGED <<now, stepped, quick>>
  BY Zenon DEF generateFilename, clockVars
<1>2. /\ name \in [Requests -> Names] /\ now \in Nat /\ now >= 1
      /\ seqNum \in Nat /\ lastUnixSec \in Nat /\ seq \in Nat
  BY DEF TypeInv, TypeOK, ServerOK
<1>3. n.sec = now /\ n.seq = seq /\ n # NoName
  BY <1>2 DEF NoName
<1>4. name'[r] = n /\ \A s \in Requests : s # r => name'[s] = name[s]
  <2> HIDE DEF n
  <2> QED
    BY <1>1, <1>2
<1> SUFFICES ASSUME ~ stepped, ~ quick
             PROVE  CounterIsAhead' /\ NamesAreDistinct'
  BY <1>1 DEF NamesInv, NamesAreDistinct
<1>5. CounterIsAhead /\ NamesAreDistinct
  BY DEF NamesInv
<1>6. \A s \in Requests : name[s] \in Names
  BY <1>2
<1>7. \A s \in Requests : name[s] # NoName =>
          /\ name[s].sec \in Nat /\ name[s].seq \in Nat
          /\ name[s].sec <= now
          /\ name[s].sec = now => lastUnixSec = now /\ name[s].seq < seqNum
  BY <1>5, <1>6 DEF CounterIsAhead, Names
<1> HIDE DEF n
<1>8. \A s \in Requests : s # r => name[s] # n
  BY <1>2, <1>3, <1>7
<1>9. CounterIsAhead'
  BY <1>1, <1>2, <1>3, <1>4, <1>7 DEF CounterIsAhead
<1>10. NamesAreDistinct'
  BY <1>1, <1>3, <1>4, <1>5, <1>8 DEF NamesAreDistinct
<1> QED
  BY <1>9, <1>10

\* A clock that is not set back, and a restart in another second, leave the
\* names given so far behind.
LEMMA ClockNames ==
    ASSUME TypeInv, NamesInv, Restart \/ Tick \/ SetBack
    PROVE  NamesInv'
<1>1. name \in [Requests -> Names] /\ now \in Nat /\ now >= 1 /\ lastUnixSec \in Nat
  BY DEF TypeInv, TypeOK, ServerOK
<1>2. \A r \in Requests : name[r].sec \in Nat
  BY <1>1 DEF Names
<1>3. UNCHANGED name
  BY DEF Restart, Tick, SetBack, serverVars
<1>4. CASE Restart
  <2>1. CASE quick'
    BY <2>1 DEF NamesInv, NamesAreDistinct
  <2>2. CASE ~ quick'
    <3>1. ~ quick /\ lastUnixSec # now /\ UNCHANGED <<now, stepped>>
      BY <1>4, <2>2 DEF Restart
    <3> QED
      BY <1>1, <1>2, <1>3, <3>1 DEF NamesInv, NamesAreDistinct, CounterIsAhead
  <2> QED
    BY <2>1, <2>2
<1>5. CASE Tick
  <2>1. now' = now + 1 /\ UNCHANGED <<stepped, quick>>
    BY <1>5 DEF Tick
  <2> QED
    BY <1>1, <1>2, <1>3, <2>1 DEF NamesInv, NamesAreDistinct, CounterIsAhead
<1>6. CASE SetBack
  BY <1>6 DEF SetBack, NamesInv, NamesAreDistinct
<1> QED
  BY <1>4, <1>5, <1>6

LEMMA StepNames == TypeInv /\ NamesInv /\ [Next]_vars => NamesInv'
<1> SUFFICES ASSUME TypeInv, NamesInv, [Next]_vars
             PROVE  NamesInv'
  OBVIOUS
<1>1. ASSUME NEW r \in Requests, UploadStep(r) \/ PumpStep(r)
      PROVE  NamesInv'
  <2>1. UNCHANGED <<name, nameVars, clockVars>>
    BY <1>1 DEF UploadStep, StartUpload, RejectUpload, NewRequestFails, Connect, DoFails,
       DoReturns, PostImage, PumpStep, Write, PumpStops, SourceFails, serverVars
  <2> QED
    BY <2>1, SameNames
<1>2. ASSUME NEW r \in Requests, ServerStep(r)
      PROVE  NamesInv'
  <2>1. CASE generateFilename(r)
    BY <2>1, generateFilenameNames
  <2>2. CASE UNCHANGED <<name, nameVars, clockVars>>
    BY <2>2, SameNames
  <2>3. generateFilename(r) \/ UNCHANGED <<name, nameVars, clockVars>>
    BY <1>2, Zenon DEF ServerStep, FormFile, FormFileFails, CheckType, CreateFile,
       CreateFails, Copy, CopyFails
  <2> QED
    BY <2>1, <2>2, <2>3
<1>3. CASE UNCHANGED vars
  BY <1>3, SameNames DEF vars, serverVars
<1> QED
  BY <1>1, <1>2, <1>3, ClockNames DEF Next

\* Two uploads never get the same name, however many come in one second, unless
\* the clock of the file-server was set back or the server was restarted within
\* the second of a name it had given.
THEOREM NamesDistinct == Spec => []NamesAreDistinct
<1>1. NamesInv => NamesAreDistinct
  BY DEF NamesInv
<1> QED
  BY <1>1, InitTypeInv, StepTypeInv, InitNames, StepNames, PTL DEF Spec

-----------------------------------------------------------------------------
(* What the webapp is told is what the directory holds.                    *)

\* A name comes with its request's turn; a file is only ever open while it is
\* copied; what is in the directory was created under its creator's name.
FilesAreNamed ==
    /\ \A r \in Requests :
          /\ srv[r] \in {"none", "parse", "check", "name"} => name[r] = NoName
          /\ srv[r] \in {"create", "copy", "created"} => name[r] # NoName
          /\ dst[r] # NoName => srv[r] = "copy" /\ dst[r] = name[r]
    /\ \A n \in dir :
          n # NoName /\ \E s \in Requests : srv[s] # "create" /\ name[s] = n
    /\ \A p \in written : p[1] # NoName /\ p[2] \in Requests /\ p[1] = name[p[2]]

\* How far the file of a request has come, when nobody else has its name.
OwnFile(r) ==
    /\ srv[r] = "create" => name[r] \notin dir
    /\ srv[r] = "copy" => name[r] \in dir /\ dst[r] = name[r]
    /\ srv[r] = "created" => name[r] \in dir /\ (<<name[r], r>> \in written \/ r \in ignored)
    /\ srv[r] = "refused" /\ name[r] # NoName => name[r] \notin dir \/ r \in ignored

Owned == \A r \in Requests : Alone(r) => OwnFile(r)

\* The webapp goes by what the file-server has answered.
Told ==
    \A r \in Requests :
        /\ up[r] \in {"new", "connecting"} => srv[r] = "none"
        /\ up[r] \in {"reading", "posted"} => srv[r] = "created"
        /\ up[r] = "refused" => srv[r] = "refused"

AnswerInv == FilesAreNamed /\ Owned /\ Told

LEMMA InitAnswer == Init => AnswerInv
BY DEF Init, AnswerInv, FilesAreNamed, Owned, OwnFile, Told

LEMMA AnswerInvImplies == TypeInv /\ AnswerInv => AnswerIsTrue
<1> SUFFICES ASSUME TypeInv, AnswerInv, NEW r \in Requests \ ignored, Alone(r)
             PROVE  /\ up[r] = "posted" =>
                          {p \in written : p[1] = name[r]} = {<<name[r], r>>} /\ name[r] \in dir
                    /\ up[r] = "refused" /\ name[r] # NoName => name[r] \notin dir
  BY DEF AnswerIsTrue
<1>1. OwnFile(r)
  BY DEF AnswerInv, Owned
<1>2. ASSUME up[r] = "posted"
      PROVE  {p \in written : p[1] = name[r]} = {<<name[r], r>>} /\ name[r] \in dir
  <2>1. name[r] \in dir /\ <<name[r], r>> \in written
    BY <1>1, <1>2 DEF AnswerInv, OwnFile, Told
  <2>2. ASSUME NEW p \in written, p[1] = name[r]
        PROVE  p = <<name[r], r>>
    <3>1. p \in Names \X Requests
      BY DEF TypeInv, TypeOK, ServerOK
    <3>2. p[2] = r
      BY <2>2 DEF AnswerInv, FilesAreNamed, Alone
    <3> QED
      BY <2>2, <3>1, <3>2
  <2> QED
    BY <2>1, <2>2
<1> QED
  BY <1>1, <1>2 DEF AnswerInv, OwnFile, Told

\* Before the name is taken, a step of the server is about no file.
LEMMA EarlyStep ==
    ASSUME TypeInv, FilesAreNamed, Owned, NEW r \in Requests,
           srv[r] \in {"none", "parse", "check"},
           NEW t \in {"parse", "check", "name", "refused"},
           srv' = [srv EXCEPT ![r] = t], UNCHANGED <<name, dst, dir, written, ignored>>
    PROVE  FilesAreNamed' /\ Owned'
<1>1. srv'[r] = t /\ \A s \in Requests : s # r => srv'[s] = srv[s]
  BY DEF TypeInv, TypeOK, ServerOK
<1>2. name[r] = NoName /\ dst[r] = NoName
  BY DEF FilesAreNamed
<1>3. FilesAreNamed'
  BY <1>1, <1>2 DEF FilesAreNamed
<1>4. Owned'
  BY <1>1, <1>2 DEF Owned, OwnFile, Alone
<1> QED
  BY <1>3, <1>4

LEMMA UploadStepAnswer ==
    ASSUME TypeInv, AnswerInv, NEW r \in Requests, UploadStep(r)
    PROVE  AnswerInv'
<1>1. CASE Connect(r)
  <2>1. /\ up[r] = "connecting" /\ up' = [up EXCEPT ![r] = "sending"]
        /\ srv' = [srv EXCEPT ![r] = "parse"]
        /\ UNCHANGED <<name, dst, dir, written, ignored>>
    BY <1>1 DEF Connect, diskVars
  <2>2. srv[r] = "none"
    BY <2>1 DEF AnswerInv, Told
  <2>3. FilesAreNamed' /\ Owned'
    BY <2>1, <2>2, EarlyStep DEF AnswerInv
  <2>4. Told'
    BY <2>1 DEF AnswerInv, Told, TypeInv, TypeOK, UploadsOK, ServerOK
  <2> QED
    BY <2>3, <2>4 DEF AnswerInv
<1>2. CASE UNCHANGED <<serverVars, diskVars>>
  <2>1. Told'
    BY <1>2, <1>1 DEF UploadStep, StartUpload, RejectUpload, NewRequestFails, DoFails, DoReturns,
       PostImage, Connect, AnswerInv, Told, serverVars, TypeInv, TypeOK, UploadsOK
  <2>2. FilesAreNamed' /\ Owned'
    BY <1>2 DEF AnswerInv, FilesAreNamed, Owned, OwnFile, Alone, serverVars, diskVars
  <2> QED
    BY <2>1, <2>2 DEF AnswerInv
<1> QED
  BY <1>1, <1>2 DEF UploadStep, StartUpload, RejectUpload, NewRequestFails, DoFails,
     DoReturns, PostImage

\* Every way a server step can go keeps what the webapp has been told true.
LEMMA ServerStepTold ==
    ASSUME TypeInv, Told, NEW r \in Requests, NEW s, NEW t,
           s \notin {"none", "created", "refused"}, Serve(r, s, t), UNCHANGED up
    PROVE  Told'
BY DEF Told, Serve, TypeInv, TypeOK, ServerOK

LEMMA EarlyStepAnswer ==
    ASSUME TypeInv, AnswerInv, NEW r \in Requests,
           FormFile(r) \/ FormFileFails(r) \/ CheckType(r)
    PROVE  AnswerInv'
<1>1. PICK s \in {"parse", "check"}, t \in {"check", "name", "refused"} : Serve(r, s, t)
  BY Zenon DEF FormFile, FormFileFails, CheckType
<1>2. UNCHANGED <<up, name, dst, dir, written, ignored>>
  BY DEF FormFile, FormFileFails, CheckType, webappVars, diskVars
<1>3. FilesAreNamed' /\ Owned'
  BY <1>1, <1>2, EarlyStep DEF Serve, AnswerInv
<1>4. Told'
  BY <1>1, <1>2, ServerStepTold DEF AnswerInv
<1> QED
  BY <1>3, <1>4 DEF AnswerInv

\* A name nobody else has is a name no file has.
LEMMA generateFilenameAnswer ==
    ASSUME TypeInv, AnswerInv, NEW r \in Requests, generateFilename(r)
    PROVE  AnswerInv'
<1> DEFINE n == [sec |-> now, seq |-> IF now # lastUnixSec THEN 0 ELSE seqNum,
                 ext |-> kind[r]]
<1>1. /\ Serve(r, "name", "create") /\ name' = [name EXCEPT ![r] = n]
      /\ UNCHANGED <<up, dst, dir, written, ignored>>
  BY Zenon DEF generateFilename, webappVars, diskVars
<1>2. n # NoName
  BY DEF NoName, TypeInv, TypeOK
<1> HIDE DEF n
<1>3. /\ srv[r] = "name" /\ srv'[r] = "create" /\ name'[r] = n
      /\ \A s \in Requests : s # r => srv'[s] = srv[s] /\ name'[s] = name[s]
  BY <1>1 DEF Serve, TypeInv, TypeOK, ServerOK
<1>4. name[r] = NoName /\ dst[r] = NoName
  BY <1>3 DEF AnswerInv, FilesAreNamed
<1>5. FilesAreNamed'
  <2>1. \A m \in dir : m # NoName /\ \E s \in Requests : srv'[s] # "create" /\ name'[s] = m
    BY <1>3, <1>4 DEF AnswerInv, FilesAreNamed
  <2>2. \A s \in Requests : name[s] # NoName => name'[s] = name[s]
    BY <1>3, <1>4
  <2>3. \A p \in written : p[1] = name'[p[2]]
    BY <2>2 DEF AnswerInv, FilesAreNamed
  <2> QED
    BY <1>1, <1>2, <1>3, <1>4, <2>1, <2>3 DEF AnswerInv, FilesAreNamed
<1>6. Owned'
  <2> SUFFICES ASSUME NEW s \in Requests, (Alone(s))'
               PROVE  (OwnFile(s))'
    BY DEF Owned
  <2>1. CASE s = r
    <3>1. \A q \in Requests : q # r => name'[q] # n
      BY <1>3, <2>1 DEF Alone
    <3>2. n \notin dir
      BY <1>2, <1>3, <1>4, <3>1 DEF AnswerInv, FilesAreNamed
    <3> QED
      BY <1>1, <1>3, <2>1, <3>2 DEF OwnFile
  <2>2. CASE s # r /\ name[s] # NoName
    <3>1. Alone(s)
      BY <1>3, <1>4, <2>2 DEF Alone
    <3> QED
      BY <1>1, <1>3, <2>2, <3>1 DEF AnswerInv, Owned, OwnFile
  <2>3. CASE s # r /\ name[s] = NoName
    BY <1>3, <1>5, <2>3 DEF FilesAreNamed, OwnFile
  <2> QED
    BY <2>1, <2>2, <2>3
<1>7. Told'
  BY <1>1, ServerStepTold DEF AnswerInv
<1> QED
  BY <1>5, <1>6, <1>7 DEF AnswerInv

LEMMA CreateFileAnswer ==
    ASSUME TypeInv, AnswerInv, NEW r \in Requests, CreateFile(r)
    PROVE  AnswerInv'
<1>1. /\ Serve(r, "create", "copy") /\ dst' = [dst EXCEPT ![r] = name[r]]
      /\ dir' = dir \cup {name[r]}
      /\ written' = {p \in written : p[1] # name[r]}
      /\ UNCHANGED <<up, name, ignored>>
  BY DEF CreateFile, webappVars
<1>2. /\ srv[r] = "create" /\ srv'[r] = "copy" /\ dst'[r] = name[r]
      /\ \A s \in Requests : s # r => srv'[s] = srv[s] /\ dst'[s] = dst[s]
  BY <1>1 DEF Serve, TypeInv, TypeOK, ServerOK
<1>3. name[r] # NoName
  BY <1>2 DEF AnswerInv, FilesAreNamed
<1>4. FilesAreNamed'
  <2>1. \A m \in dir' : m # NoName /\ \E s \in Requests : srv'[s] # "create" /\ name[s] = m
    BY <1>1, <1>2, <1>3 DEF AnswerInv, FilesAreNamed
  <2>2. \A s \in Requests :
           /\ srv'[s] \in {"none", "parse", "check", "name"} => name[s] = NoName
           /\ srv'[s] \in {"create", "copy", "created"} => name[s] # NoName
           /\ dst'[s] # NoName => srv'[s] = "copy" /\ dst'[s] = name[s]
    BY <1>2, <1>3 DEF AnswerInv, FilesAreNamed
  <2> QED
    BY <1>1, <2>1, <2>2 DEF AnswerInv, FilesAreNamed
<1>5. Owned'
  <2> SUFFICES ASSUME NEW s \in Requests, Alone(s)
               PROVE  (OwnFile(s))'
    BY <1>1 DEF Owned, Alone
  <2>1. CASE s = r
    BY <1>1, <1>2, <2>1 DEF OwnFile
  <2>2. CASE s # r
    <3>1. name[r] # name[s] /\ OwnFile(s)
      BY <2>2 DEF Alone, AnswerInv, Owned
    <3> QED
      BY <1>1, <1>2, <2>2, <3>1 DEF OwnFile
  <2> QED
    BY <2>1, <2>2
<1>6. Told'
  BY <1>1, ServerStepTold DEF AnswerInv
<1> QED
  BY <1>4, <1>5, <1>6 DEF AnswerInv

\* The rest of a request that has its name: it ends, with the whole file linked
\* or with no file.
LEMMA EndsAnswer ==
    ASSUME TypeInv, AnswerInv, NEW r \in Requests,
           CreateFails(r) \/ Copy(r) \/ CopyFails(r)
    PROVE  AnswerInv'
<1>1. PICK s0 \in {"create", "copy"}, t \in {"refused", "created"} : Serve(r, s0, t)
  BY Zenon DEF CreateFails, Copy, CopyFails
<1>2. UNCHANGED <<up, name>>
  BY DEF CreateFails, Copy, CopyFails, webappVars
<1>3. /\ srv[r] = s0 /\ srv'[r] = t
      /\ \A s \in Requests : s # r => srv'[s] = srv[s]
  BY <1>1 DEF Serve, TypeInv, TypeOK, ServerOK
<1>4. name[r] # NoName
  BY <1>3 DEF AnswerInv, FilesAreNamed
<1>5. dst \in [Requests -> Names]
  BY DEF TypeInv, TypeOK, ServerOK
<1>6. FilesAreNamed'
  <2>1. dir' \subseteq dir
    BY DEF CreateFails, Copy, CopyFails, Remove, diskVars
  <2>2. \A m \in dir' : m # NoName /\ \E s \in Requests : srv'[s] # "create" /\ name[s] = m
    BY <1>3, <2>1 DEF AnswerInv, FilesAreNamed
  <2>3. \A s \in Requests : dst'[s] # NoName => s # r /\ dst'[s] = dst[s]
    <3>1. CASE CreateFails(r)
      BY <1>3, <3>1 DEF CreateFails, Serve, AnswerInv, FilesAreNamed
    <3>2. CASE Copy(r)
      BY <1>5, <3>2 DEF Copy
    <3>3. CASE CopyFails(r)
      BY <1>5, <3>3 DEF CopyFails, Remove
    <3> QED
      BY <3>1, <3>2, <3>3
  <2>4. \A s \in Requests :
           /\ srv'[s] \in {"none", "parse", "check", "name"} => name[s] = NoName
           /\ srv'[s] \in {"create", "copy", "created"} => name[s] # NoName
           /\ dst'[s] # NoName => srv'[s] = "copy" /\ dst'[s] = name[s]
    BY <1>3, <1>4, <2>3 DEF AnswerInv, FilesAreNamed
  <2>5. \A p \in written' : p[1] # NoName /\ p[2] \in Requests /\ p[1] = name[p[2]]
    <3>1. CASE Copy(r)
      <4>1. \/ written' = written
            \/ dst[r] # NoName /\ written' = written \cup {<<dst[r], r>>}
        BY <3>1 DEF Copy
      <4>2. dst[r] # NoName => dst[r] = name[r]
        BY DEF AnswerInv, FilesAreNamed
      <4> QED
        BY <4>1, <4>2 DEF AnswerInv, FilesAreNamed
    <3>2. CASE CreateFails(r) \/ CopyFails(r)
      BY <3>2 DEF CreateFails, CopyFails, Remove, diskVars, AnswerInv, FilesAreNamed
    <3> QED
      BY <3>1, <3>2
  <2> QED
    BY <1>2, <2>2, <2>4, <2>5 DEF FilesAreNamed
<1>7. Owned'
  <2> SUFFICES ASSUME NEW s \in Requests, Alone(s)
               PROVE  (OwnFile(s))'
    BY <1>2 DEF Owned, Alone
  <2>1. OwnFile(s)
    BY DEF AnswerInv, Owned
  <2>2. CASE s = r
    <3>1. CASE CreateFails(r)
      BY <1>2, <2>1, <2>2, <3>1, <1>3 DEF CreateFails, Serve, OwnFile, diskVars
    <3>2. CASE Copy(r)
      BY <1>2, <1>3, <1>4, <2>1, <2>2, <3>2 DEF Copy, Serve, OwnFile
    <3>3. CASE CopyFails(r)
      BY <1>2, <1>3, <2>2, <3>3 DEF CopyFails, Remove, Serve, OwnFile
    <3> QED
      BY <3>1, <3>2, <3>3
  <2>3. CASE s # r
    <3>1. name[s] # name[r] /\ srv'[s] = srv[s]
      BY <1>3, <2>3 DEF Alone
    <3>2. /\ name[s] \in dir' <=> name[s] \in dir
          /\ <<name[s], s>> \in written => <<name[s], s>> \in written'
      BY <3>1 DEF CreateFails, Copy, CopyFails, Remove, diskVars
    <3>3. srv[s] = "copy" => dst'[s] = dst[s]
      <4>1. srv[s] = "copy" => dst[s] # name[r]
        BY <2>1, <3>1 DEF OwnFile
      <4> QED
        BY <1>5, <2>3, <4>1 DEF CreateFails, Copy, CopyFails, Remove
    <3>4. s \in ignored => s \in ignored'
      BY DEF CreateFails, Copy, CopyFails, diskVars
    <3> QED
      BY <1>2, <2>1, <3>1, <3>2, <3>3, <3>4 DEF OwnFile
  <2> QED
    BY <2>2, <2>3
<1>8. Told'
  BY <1>1, <1>2, ServerStepTold DEF AnswerInv
<1> QED
  BY <1>6, <1>7, <1>8 DEF AnswerInv

\* A restart forgets what was in hand and keeps the directory; a file that was
\* being copied stays there, and nobody was told of it.
LEMMA RestartAnswer ==
    ASSUME TypeInv, AnswerInv, Restart
    PROVE  AnswerInv'
<1>1. /\ UNCHANGED <<up, name, dir, written, ignored>>
      /\ srv' = [r \in Requests |-> IF srv[r] \in {"none", "created", "refused"}
                                    THEN srv[r] ELSE "gone"]
      /\ dst' = [r \in Requests |-> NoName]
  BY DEF Restart, webappVars, diskVars
<1>2. \A r \in Requests : /\ srv'[r] \in {srv[r], "gone"}
                          /\ srv'[r] \notin {"create", "copy"}
                          /\ srv[r] \in {"none", "created", "refused"} => srv'[r] = srv[r]
                          /\ dst'[r] = NoName
  BY <1>1
<1>3. FilesAreNamed'
  BY <1>1, <1>2 DEF AnswerInv, FilesAreNamed
<1>4. Owned'
  BY <1>1, <1>2 DEF AnswerInv, Owned, OwnFile, Alone
<1>5. Told'
  BY <1>1, <1>2 DEF AnswerInv, Told
<1> QED
  BY <1>3, <1>4, <1>5 DEF AnswerInv

LEMMA StepAnswer == TypeInv /\ AnswerInv /\ [Next]_vars => AnswerInv'
<1> SUFFICES ASSUME TypeInv, AnswerInv, [Next]_vars
             PROVE  AnswerInv'
  OBVIOUS
<1>1. CASE UNCHANGED <<up, serverVars, diskVars>>
  BY <1>1 DEF AnswerInv, FilesAreNamed, Owned, OwnFile, Alone, Told, serverVars, diskVars
<1>2. ASSUME NEW r \in Requests, ServerStep(r)
      PROVE  AnswerInv'
  BY <1>2, EarlyStepAnswer, generateFilenameAnswer, CreateFileAnswer, EndsAnswer
     DEF ServerStep
<1>3. (\E r \in Requests : PumpStep(r)) \/ Tick \/ SetBack \/ UNCHANGED vars
          => UNCHANGED <<up, serverVars, diskVars>>
  BY DEF PumpStep, Write, PumpStops, SourceFails, Tick, SetBack, vars, webappVars
<1> QED
  BY <1>1, <1>2, <1>3, UploadStepAnswer, RestartAnswer DEF Next

\* A message never names an image that is not there, or not whole, and a refused
\* upload has left no file, whenever nobody else was given the same name.
THEOREM AnswersAreTrue == Spec => []AnswerIsTrue
BY InitTypeInv, StepTypeInv, InitAnswer, StepAnswer, AnswerInvImplies, PTL DEF Spec
=============================================================================
