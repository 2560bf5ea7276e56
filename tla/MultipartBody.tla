---------------------------- MODULE MultipartBody ----------------------------
(* web/client/multipart.go: the body of a multipart request.  A goroutine,    *)
(* started by the first Read or Close, writes the form into a pipe that holds *)
(* nothing; the HTTP transport reads from it, may stop reading at any time,   *)
(* and closes the body.  The pipe (io.Pipe) and the transport are external.   *)
EXTENDS Naturals, Sequences

CONSTANTS MaxParts   \* bound: parts of a form

VARIABLES parts,      \* how many parts the form has
          broken,     \* the part whose file cannot be read, or 0
          writer,     \* the goroutine: unstarted, writing, trailer, finishing, done
          next,       \* the part to write
          offered,    \* the part that waits in the pipe to be read, or 0
          err,        \* the writer's error so far, and the body's once it is done
          transport,  \* reading, closing, waiting, closed
          got,        \* what the transport has read
          ending,     \* how reading ended: none, eof, error
          result      \* what Close returned

vars == <<parts, broken, writer, next, offered, err, transport, got, ending, result>>

Trailer == parts + 1
OpenToTheEnd == TRUE
Open == transport \in {"reading", "closing"}   \* the read end of the pipe

Init ==
  /\ parts \in 0..MaxParts
  /\ broken \in 0..parts
  /\ writer = "unstarted" /\ next = 1 /\ offered = 0 /\ err = "none"
  /\ transport = "reading" /\ got = <<>> /\ ending = "none" /\ result = "none"

(* once.Do(start), by the first of Read and Close. *)
start ==
  /\ writer = "unstarted"
  /\ writer' = "writing"
  /\ UNCHANGED <<parts, broken, next, offered, err, transport, got, ending, result>>

(* writeMultipart: each part is offered in turn, and written once it is read; *)
(* a write into a pipe closed by its reader fails.                            *)
WritePart ==
  /\ writer = "writing" /\ offered = 0
  /\ IF next = Trailer THEN writer' = "trailer" /\ UNCHANGED <<next, offered, err>>
     ELSE IF ~Open \/ next = broken
     THEN /\ writer' = "trailer"
          /\ err' = IF Open THEN "file" ELSE "closed pipe"
          /\ UNCHANGED <<next, offered>>
     ELSE /\ offered' = next /\ next' = next + 1
          /\ UNCHANGED <<writer, err>>
  /\ UNCHANGED <<parts, broken, transport, got, ending, result>>
(* form.Close writes the last boundary, also after a file that failed; the    *)
(* error of the parts wins over its own.                                      *)
CloseForm ==
  /\ writer = "trailer" /\ offered = 0
  /\ writer' = "finishing"
  /\ IF Open /\ err # "closed pipe" THEN offered' = Trailer /\ UNCHANGED err
     ELSE err' = (IF err = "none" THEN "closed pipe" ELSE err) /\ UNCHANGED offered
  /\ UNCHANGED <<parts, broken, next, transport, got, ending, result>>
(* The reader closed its end with a write pending: the write fails.           *)
WriteFails ==
  /\ offered # 0 /\ ~Open
  /\ offered' = 0
  /\ err' = IF err = "none" THEN "closed pipe" ELSE err
  /\ writer' = IF writer = "writing" THEN "trailer" ELSE writer
  /\ UNCHANGED <<parts, broken, next, transport, got, ending, result>>
(* setWriteError, CloseWithError and close(done).                             *)
Finish ==
  /\ writer = "finishing" /\ offered = 0
  /\ writer' = "done"
  /\ UNCHANGED <<parts, broken, next, offered, err, transport, got, ending, result>>

Read ==
  /\ transport = "reading" /\ ending = "none" /\ writer # "unstarted"
  /\ \/ offered # 0 /\ got' = Append(got, offered) /\ offered' = 0 /\ UNCHANGED ending
     \/ /\ offered = 0 /\ writer = "done"
        /\ ending' = IF err = "none" THEN "eof" ELSE "error"
        /\ UNCHANGED <<got, offered>>
  /\ UNCHANGED <<parts, broken, writer, next, err, transport, result>>
(* The transport closes the body when it has sent it, or gives up before.     *)
Close ==
  /\ transport = "reading"
  /\ transport' = "closing"
  /\ UNCHANGED <<parts, broken, writer, next, offered, err, got, ending, result>>
CloseReader ==
  /\ transport = "closing" /\ writer # "unstarted"
  /\ transport' = "waiting"
  /\ UNCHANGED <<parts, broken, writer, next, offered, err, got, ending, result>>
AwaitWriter ==
  /\ transport = "waiting" /\ writer = "done"
  /\ transport' = "closed"
  /\ result' = IF err = "closed pipe" THEN "none" ELSE err
  /\ UNCHANGED <<parts, broken, writer, next, offered, err, got, ending>>

Writer == start \/ WritePart \/ CloseForm \/ WriteFails \/ Finish
Transport == Close \/ CloseReader \/ AwaitWriter
Next == Writer \/ Read \/ Transport
(* The goroutine runs, file reads return, and net/http closes every body.     *)
Fairness == WF_vars(Writer) /\ WF_vars(Transport)
Spec == Init /\ [][Next]_vars /\ Fairness
-----------------------------------------------------------------------------
(* What the transport took for the end of the body is the end of a whole      *)
(* form: one whose file could not be read always ends in an error, and so     *)
(* does one whose writer was stopped (multipart.go: CloseWithError).          *)
WholeOrError ==
  /\ ending = "eof" => got = [i \in 1..Trailer |-> i] /\ broken = 0
  /\ transport = "closed" /\ result = "none" /\ ending # "none" => ending = "eof"

(* However a request is given up, Close returns and the goroutine has ended   *)
(* by then.                                                                   *)
BodyReleased == <>[](transport = "closed" /\ writer = "done")
=============================================================================
