----------------------------- MODULE FileUpload -----------------------------
(***************************************************************************)
(* Sending an image.  UploadFile of the webapp starts a goroutine (the     *)
(* pump) that writes the multipart body into a pipe, while client.Do sends *)
(* what it reads from the pipe to the file-server.  handleUpload reads the *)
(* whole form, checks the type, takes a name from the clock and a counter, *)
(* creates the file, copies the image into it and answers with the name,   *)
(* which the webapp then posts as the content of a message.                *)
(*                                                                         *)
(* A request is one run of UploadFile, with its pump and with the run of   *)
(* handleUpload that serves it.  Bytes are abstracted to the request they  *)
(* come from: a file that a copy has not finished holds nothing.           *)
(***************************************************************************)
EXTENDS Naturals

CONSTANTS
    Requests,   \* uploads
    Kinds,      \* what is uploaded, a subset of AllKinds
    MaxTime,    \* bound: the last second of the clock
    MaxFaults   \* bound: faults of the environment

\* What the first 512 bytes say: an image of a supported or of another type,
\* or that there are fewer than 512.
Extensions == {"jpeg", "png"}
AllKinds == Extensions \cup {"other", "short"}

ASSUME UploadAssumption ==
    /\ Kinds \subseteq AllKinds
    /\ MaxTime \in Nat /\ MaxFaults \in Nat

VARIABLES
    up,           \* up[r]: UploadFile: new, connecting, sending, reading, then
                  \* posted, refused (an answer other than 201), failed
    kind,         \* kind[r]: what r uploads
    pump,         \* pump[r]: the goroutine: none, part, content, boundary, ended
    pipe,         \* pipe[r]: none, unread, read, eof, closed (by the reader),
                  \* failed (closed with an error by the pump)
    srv,          \* srv[r]: handleUpload: none, parse, check, name, create,
                  \* copy, then created, refused, gone
    name,         \* name[r]: the name handleUpload took
    dst,          \* dst[r]: where the file that handleUpload has open is linked
    dir,          \* names in the directory of the file-server
    written,      \* <<n, r>>: file n holds the bytes of r
    ignored,      \* history: requests whose failed Close or Remove went unnoticed
    now,          \* the second of the file-server's clock
    lastUnixSec,  \* second of the last name
    seqNum,       \* counter of names within that second
    faults,       \* number of faults so far
    stepped,      \* history: the clock was set back
    quick         \* history: the server restarted within the second of a name

webappVars == <<up, kind, pump, pipe>>
serverVars == <<srv, name, dst>>
diskVars   == <<dir, written, ignored>>
nameVars   == <<lastUnixSec, seqNum>>
clockVars  == <<now, stepped, quick>>
vars == <<webappVars, serverVars, diskVars, nameVars, clockVars, faults>>

NoName == [sec |-> 0, seq |-> 0, ext |-> "none"]
Names == [sec : Nat, seq : Nat, ext : Extensions \cup {"none"}]

Init ==
    /\ up = [r \in Requests |-> "new"]
    /\ kind \in [Requests -> Kinds]
    /\ pump = [r \in Requests |-> "none"]
    /\ pipe = [r \in Requests |-> "none"]
    /\ srv = [r \in Requests |-> "none"]
    /\ name = [r \in Requests |-> NoName]
    /\ dst = [r \in Requests |-> NoName]
    /\ dir = {} /\ written = {} /\ ignored = {}
    /\ now = 1 /\ lastUnixSec = 0 /\ seqNum = 0
    /\ faults = 0 /\ stepped = FALSE /\ quick = FALSE

Fault == faults < MaxFaults /\ faults' = faults + 1

-----------------------------------------------------------------------------
(* Webapp: UploadFile and FileUploader.Upload.                             *)

\* The chat is known and the form has a file: the pipe and its pump are made.
StartUpload(r) ==
    /\ up[r] = "new"
    /\ up' = [up EXCEPT ![r] = "connecting"]
    /\ pump' = [pump EXCEPT ![r] = "part"]
    /\ pipe' = [pipe EXCEPT ![r] = "unread"]
    /\ UNCHANGED <<kind, serverVars, diskVars, nameVars, clockVars, faults>>

\* No such chat, or no file in the form: answered without an upload.
RejectUpload(r) ==
    /\ up[r] = "new"
    /\ up' = [up EXCEPT ![r] = "failed"]
    /\ UNCHANGED <<kind, pump, pipe, serverVars, diskVars, nameVars, clockVars, faults>>

\* The reader of the pipe closes: what the pump writes from now on fails.
CloseReader(r) ==
    pipe' = [pipe EXCEPT ![r] = IF @ \in {"unread", "read"} THEN "closed" ELSE @]

MutantNewRequestFails(r) ==
    /\ up[r] = "connecting"
    /\ Fault
    /\ up' = [up EXCEPT ![r] = "failed"]
    /\ UNCHANGED <<kind, pump, pipe, serverVars, diskVars, nameVars, clockVars>>

\* NewRequestWithContext refuses the address it is configured with.
NewRequestFails(r) ==
    /\ up[r] = "connecting"
    /\ Fault
    /\ up' = [up EXCEPT ![r] = "failed"]
    /\ CloseReader(r)
    /\ UNCHANGED <<kind, pump, serverVars, diskVars, nameVars, clockVars>>

\* client.Do has a connection and reads the pipe; handleUpload starts.
Connect(r) ==
    /\ up[r] = "connecting"
    /\ up' = [up EXCEPT ![r] = "sending"]
    /\ pipe' = [pipe EXCEPT ![r] = "read"]
    /\ srv' = [srv EXCEPT ![r] = "parse"]
    /\ UNCHANGED <<kind, pump, name, dst, diskVars, nameVars, clockVars, faults>>

\* As if the client had no timeout.
MutantDoFails(r) ==
    /\ up[r] \in {"connecting", "sending", "reading"}
    /\ srv[r] \in {"none", "gone"}
    /\ up' = [up EXCEPT ![r] = "failed"]
    /\ CloseReader(r)
    /\ UNCHANGED <<kind, pump, serverVars, diskVars, nameVars, clockVars, faults>>

\* No connection, a broken one, the timeout, or a browser that went away, up to
\* the last byte of the answer.  The transport closes the body.
DoFails(r) ==
    /\ up[r] \in {"connecting", "sending", "reading"}
    /\ up' = [up EXCEPT ![r] = "failed"]
    /\ CloseReader(r)
    /\ UNCHANGED <<kind, pump, serverVars, diskVars, nameVars, clockVars, faults>>

MutantDoReturns(r) ==
    /\ up[r] = "sending"
    /\ srv[r] \in {"created", "refused"}
    /\ up' = [up EXCEPT ![r] = "reading"]
    /\ CloseReader(r)
    /\ UNCHANGED <<kind, pump, serverVars, diskVars, nameVars, clockVars, faults>>

\* client.Do returns the answer, be the body sent or not; closing the answer's
\* body closes the connection of a request that is still being sent.
DoReturns(r) ==
    /\ up[r] = "sending"
    /\ srv[r] \in {"created", "refused"}
    /\ up' = [up EXCEPT ![r] = IF srv[r] = "created" THEN "reading" ELSE "refused"]
    /\ CloseReader(r)
    /\ UNCHANGED <<kind, pump, serverVars, diskVars, nameVars, clockVars, faults>>

\* The name is read from the answer and the message posted.
PostImage(r) ==
    /\ up[r] = "reading"
    /\ up' = [up EXCEPT ![r] = "posted"]
    /\ UNCHANGED <<kind, pump, pipe, serverVars, diskVars, nameVars, clockVars, faults>>

-----------------------------------------------------------------------------
(* Webapp: the pump.  A write to the pipe blocks until it is read.         *)

NextWrite == [part |-> "content", content |-> "boundary", boundary |-> "ended"]

Write(r) ==
    /\ pump[r] \in DOMAIN NextWrite
    /\ pipe[r] = "read"
    /\ pump' = [pump EXCEPT ![r] = NextWrite[@]]
    /\ pipe' = [pipe EXCEPT ![r] = IF pump[r] = "boundary" THEN "eof" ELSE @]
    /\ UNCHANGED <<up, kind, serverVars, diskVars, nameVars, clockVars, faults>>

\* A write after the reader has closed.
PumpStops(r) ==
    /\ pump[r] \in DOMAIN NextWrite
    /\ pipe[r] = "closed"
    /\ pump' = [pump EXCEPT ![r] = "ended"]
    /\ UNCHANGED <<up, kind, pipe, serverVars, diskVars, nameVars, clockVars, faults>>

\* The browser's file cannot be read any further.
SourceFails(r) ==
    /\ pump[r] = "content"
    /\ pipe[r] \in {"unread", "read"}
    /\ Fault
    /\ pump' = [pump EXCEPT ![r] = "ended"]
    /\ pipe' = [pipe EXCEPT ![r] = "failed"]
    /\ UNCHANGED <<up, kind, serverVars, diskVars, nameVars, clockVars>>

-----------------------------------------------------------------------------
(* File-server: handleUpload.                                              *)

Serve(r, from, to) == srv[r] = from /\ srv' = [srv EXCEPT ![r] = to]

FormFile(r) ==
    /\ Serve(r, "parse", "check")
    /\ pipe[r] = "eof"
    /\ UNCHANGED <<webappVars, name, dst, diskVars, nameVars, clockVars, faults>>

\* The body breaks off, or the form cannot be kept.
FormFileFails(r) ==
    /\ Serve(r, "parse", "refused")
    /\ IF up[r] = "failed" \/ pipe[r] = "failed" THEN UNCHANGED faults ELSE Fault
    /\ UNCHANGED <<webappVars, name, dst, diskVars, nameVars, clockVars>>

MutantCheckType(r) ==
    /\ Serve(r, "check", "name")
    /\ UNCHANGED <<webappVars, name, dst, diskVars, nameVars, clockVars, faults>>

\* ReadFull and DetectContentType.
CheckType(r) ==
    /\ Serve(r, "check", IF kind[r] \in Extensions THEN "name" ELSE "refused")
    /\ UNCHANGED <<webappVars, name, dst, diskVars, nameVars, clockVars, faults>>

MutantGenerateFilename(r) ==
    /\ Serve(r, "name", "create")
    /\ lastUnixSec' = now
    /\ seqNum' = IF now # lastUnixSec THEN 0 ELSE seqNum + 1
    /\ name' = [name EXCEPT ![r] = [sec |-> now, seq |-> seqNum, ext |-> kind[r]]]
    /\ UNCHANGED <<webappVars, dst, diskVars, clockVars, faults>>

\* One critical section of mu.
generateFilename(r) ==
    LET seq == IF now # lastUnixSec THEN 0 ELSE seqNum IN
    /\ Serve(r, "name", "create")
    /\ lastUnixSec' = now
    /\ seqNum' = seq + 1
    /\ name' = [name EXCEPT ![r] = [sec |-> now, seq |-> seq, ext |-> kind[r]]]
    /\ UNCHANGED <<webappVars, dst, diskVars, clockVars, faults>>

\* os.Create makes the file, or empties the one that has the name.
CreateFile(r) ==
    /\ Serve(r, "create", "copy")
    /\ dst' = [dst EXCEPT ![r] = name[r]]
    /\ dir' = dir \cup {name[r]}
    /\ written' = {p \in written : p[1] # name[r]}
    /\ UNCHANGED <<webappVars, name, ignored, nameVars, clockVars, faults>>

CreateFails(r) ==
    /\ Serve(r, "create", "refused")
    /\ Fault
    /\ UNCHANGED <<webappVars, name, dst, diskVars, nameVars, clockVars>>

\* A descriptor of a file that was removed is linked nowhere.  What io.Copy wrote
\* may be lost when the file is closed: the error of dst.Close is ignored.
Copy(r) ==
    /\ Serve(r, "copy", "created")
    /\ \/ /\ written' = IF dst[r] = NoName THEN written
                                          ELSE written \cup {<<dst[r], r>>}
          /\ UNCHANGED <<ignored, faults>>
       \/ /\ Fault
          /\ ignored' = ignored \cup {r}
          /\ UNCHANGED written
    /\ dst' = [dst EXCEPT ![r] = NoName]
    /\ UNCHANGED <<webappVars, name, dir, nameVars, clockVars>>

MutantCopyFails(r) ==
    /\ Serve(r, "copy", "refused")
    /\ Fault
    /\ dst' = [dst EXCEPT ![r] = NoName]
    /\ UNCHANGED <<webappVars, name, diskVars, nameVars, clockVars>>

\* os.Remove of the name; other descriptors of the file stay open.
Remove(r) ==
    /\ dir' = dir \ {name[r]}
    /\ written' = {p \in written : p[1] # name[r]}
    /\ dst' = [s \in Requests |-> IF s = r \/ dst[s] = name[r] THEN NoName ELSE dst[s]]

\* Seek or io.Copy fails and the name is removed, or is not: the error of
\* os.Remove is ignored.
CopyFails(r) ==
    /\ Serve(r, "copy", "refused")
    /\ Fault
    /\ \/ Remove(r) /\ UNCHANGED ignored
       \/ /\ ignored' = ignored \cup {r}
          /\ dst' = [dst EXCEPT ![r] = NoName]
          /\ UNCHANGED <<dir, written>>
    /\ UNCHANGED <<webappVars, name, nameVars, clockVars>>

\* The process ends and is started again: what it had in hand is gone, what it
\* has answered may still arrive.
Restart ==
    /\ Fault
    /\ srv' = [r \in Requests |-> IF srv[r] \in {"none", "created", "refused"}
                                  THEN srv[r] ELSE "gone"]
    /\ dst' = [r \in Requests |-> NoName]
    /\ lastUnixSec' = 0 /\ seqNum' = 0
    /\ quick' = (quick \/ lastUnixSec = now)
    /\ UNCHANGED <<webappVars, name, diskVars, now, stepped>>

Tick ==
    /\ now < MaxTime
    /\ now' = now + 1
    /\ UNCHANGED <<webappVars, serverVars, diskVars, nameVars, stepped, quick, faults>>

SetBack ==
    /\ Fault
    /\ \E t \in 1..MaxTime : t < now /\ now' = t
    /\ stepped' = TRUE
    /\ UNCHANGED <<webappVars, serverVars, diskVars, nameVars, quick>>

-----------------------------------------------------------------------------
UploadStep(r) == \/ StartUpload(r) \/ RejectUpload(r) \/ NewRequestFails(r)
                 \/ Connect(r) \/ DoFails(r) \/ DoReturns(r) \/ PostImage(r)
PumpStep(r) == Write(r) \/ PumpStops(r) \/ SourceFails(r)
ServerStep(r) == \/ FormFile(r) \/ FormFileFails(r) \/ CheckType(r)
                 \/ generateFilename(r) \/ CreateFile(r) \/ CreateFails(r)
                 \/ Copy(r) \/ CopyFails(r)

Next == \/ \E r \in Requests : UploadStep(r) \/ PumpStep(r) \/ ServerStep(r)
        \/ Restart \/ Tick \/ SetBack

Spec == Init /\ [][Next]_vars

\* The client's timeout of 60 s ends client.Do and the reading of the answer,
\* and the pump runs on once a write of it has failed.  The file-server and the
\* network owe nothing.
Fairness == \A r \in Requests : WF_vars(DoFails(r)) /\ WF_vars(PumpStops(r))

FairSpec == Spec /\ Fairness

-----------------------------------------------------------------------------
(* Properties.                                                             *)

UploadsOK ==
    /\ up \in [Requests -> {"new", "connecting", "sending", "reading", "posted",
                            "refused", "failed"}]
    /\ kind \in [Requests -> Kinds]
    /\ pump \in [Requests -> {"none", "part", "content", "boundary", "ended"}]
    /\ pipe \in [Requests -> {"none", "unread", "read", "eof", "closed", "failed"}]

ServerOK ==
    /\ srv \in [Requests -> {"none", "parse", "check", "name", "create", "copy",
                             "created", "refused", "gone"}]
    /\ name \in [Requests -> Names] /\ dst \in [Requests -> Names]
    /\ dir \subseteq Names /\ written \subseteq Names \X Requests /\ ignored \subseteq Requests
    /\ lastUnixSec \in Nat /\ seqNum \in Nat

\* Every variable has its type.
TypeOK == /\ UploadsOK /\ ServerOK /\ now \in Nat /\ faults \in Nat
          /\ stepped \in BOOLEAN /\ quick \in BOOLEAN

\* Two uploads get the same name only if the clock of the file-server was set
\* back, or if it was restarted within the second of a name it had given:
\* generateFilename (main.go:116) counts within a second and forgets the rest.
NamesAreDistinct ==
    ~ stepped /\ ~ quick =>
        \A r, s \in Requests : r # s /\ name[r] # NoName => name[r] # name[s]

Alone(r) == \A s \in Requests \ {r} : name[s] # name[r]

\* What the webapp was told is what the directory holds, for good: the image a
\* message names is there, whole and nothing but it, and a refused upload has
\* left no file, provided that nobody was given the same name and that the file
\* system closed and removed what it was asked to: handleUpload looks at the error
\* of neither (main.go:93, 100, 102) and answers as if there were none.
AnswerIsTrue ==
    \A r \in Requests \ ignored :
        /\ up[r] = "posted" /\ Alone(r) =>
              {p \in written : p[1] = name[r]} = {<<name[r], r>>} /\ name[r] \in dir
        /\ up[r] = "refused" /\ name[r] # NoName /\ Alone(r) => name[r] \notin dir

\* UploadFile returns, whatever the file-server and the network do.
EveryUploadReturns ==
    \A r \in Requests : up[r] = "connecting" ~> up[r] \in {"posted", "refused", "failed"}

\* The goroutine of fileuploader.go:42 ends, also when the request is never
\* built, fails early or is answered before the body is sent.
EveryPumpEnds == \A r \in Requests : pump[r] = "part" ~> pump[r] = "ended"
=============================================================================
