------------------------------- MODULE FileCalls ------------------------------
(*****************************************************************************)
(* What a call waits for and gets back: waiting for a file or a job          *)
(* (engine.cpp), the worker process of one filesystem operation, and the     *)
(* capture of output text. They share no state.                              *)
(*****************************************************************************)
EXTENDS Integers, Sequences, SequencesExt, FiniteSets

-------------------------------------------------------------------------------
(*****************************************************************************)
(* devbox_wait_for_file and devbox_job_status with a wait: both watch        *)
(* something that others change, by observations that take time and may not  *)
(* come back, until a condition holds or the deadline passes.                *)
(*****************************************************************************)
CONSTANTS
  Deadline,     \* of the wait, in ticks from its start
  Stable,       \* stable_ms
  Poll,         \* poll_ms, and the interval of the job wait
  Statuses,     \* what a job reports, in the order it goes through them
  MaxTime       \* the clock's bound

VARIABLES
  clock,
  waitFile,     \* whether the file condition holds now
  fileWait,     \* the wait for the file
  waitSeen,     \* its observations: <<when, outcome>>
  job,          \* the job's position in Statuses
  jobWait       \* the wait for the job

waitVars == <<clock, waitFile, fileWait, waitSeen, job, jobWait>>

Never == -1
Terminal == Len(Statuses)

WaitInit ==
      /\ clock = 0 /\ waitFile = FALSE /\ waitSeen = <<>>
      /\ fileWait = [at |-> "look", until |-> 0, state |-> "empty", since |-> Never, met |-> FALSE]
      /\ job = 1
      /\ jobWait = [at |-> "raw", until |-> Deadline, status |-> 0, initial |-> 0, any |-> FALSE,
                    late |-> FALSE]

Lesser(a, b) == IF a < b THEN a ELSE b

(* The world: the file comes and goes, the job proceeds, and time passes, but  *)
(* never beyond the moment a pending delay or a bounded observation ends.      *)
FileChanges == /\ fileWait.at # "done" /\ waitFile' = ~waitFile
               /\ UNCHANGED <<clock, fileWait, waitSeen, job, jobWait>>
JobProceeds == /\ job < Terminal /\ job' = job + 1
               /\ UNCHANGED <<clock, waitFile, fileWait, waitSeen, jobWait>>
Tick ==
  /\ clock < MaxTime
  /\ \A w \in {fileWait, jobWait} :
       \/ w.at \in {"done", "failed"}
       \/ w.at \in {"raw", "busy", "asleep"} /\ clock < w.until
  /\ clock' = clock + 1
  /\ UNCHANGED <<waitFile, fileWait, waitSeen, job, jobWait>>

-----------------------------------------------------------------------------
(* wait_file: path_state runs in an isolated worker until the deadline, and for*)
(* a moment at least; after the deadline the last state is used again.         *)
Look ==
  /\ fileWait.at = "look"
  /\ fileWait' = IF clock < Deadline \/ fileWait.state = "empty"
                 THEN [fileWait EXCEPT !.at = "busy",
                                       !.until = IF clock < Deadline THEN Deadline ELSE clock + 1]
                 ELSE [fileWait EXCEPT !.at = "judge"]
  /\ UNCHANGED <<clock, waitFile, waitSeen, job, jobWait>>

Observe(outcome) ==
  /\ fileWait' = [fileWait EXCEPT !.at = "judge", !.state = outcome]
  /\ waitSeen' = Append(waitSeen, <<clock, outcome>>)
  /\ UNCHANGED <<clock, waitFile, job, jobWait>>
Answered    == fileWait.at = "busy" /\ Observe(IF waitFile THEN "holds" ELSE "fails")
Unavailable == fileWait.at = "busy" /\ clock = fileWait.until /\ Observe("unavailable")

(* When the condition has held since: an unavailable observation is no proof.  *)
Since == IF fileWait.state = "holds"
         THEN IF fileWait.since = Never THEN clock ELSE fileWait.since
         ELSE Never

Judge ==
  /\ fileWait.at = "judge"
  /\ LET met == Since # Never /\ clock - Since >= Stable
     IN fileWait' = [fileWait EXCEPT
          !.since = Since, !.met = met,
          !.at = IF met \/ clock >= Deadline THEN "done" ELSE "asleep",
          !.until = Lesser(clock + Poll, Deadline)]
  /\ UNCHANGED <<clock, waitFile, waitSeen, job, jobWait>>

Wake ==
  /\ fileWait.at = "asleep" /\ clock = fileWait.until
  /\ fileWait' = [fileWait EXCEPT !.at = "look"]
  /\ UNCHANGED <<clock, waitFile, waitSeen, job, jobWait>>

-----------------------------------------------------------------------------
(* wait_job: the stored status first, then a reconciled one, then polls, each  *)
(* run until the deadline.                                                     *)
JobStep(w) == jobWait' = w /\ UNCHANGED <<clock, waitFile, fileWait, waitSeen, job>>

ReadRaw ==
  /\ jobWait.at = "raw" /\ clock < Deadline
  /\ \E any \in BOOLEAN : JobStep([jobWait EXCEPT !.at = "busy", !.status = job, !.any = any])
RawLate == jobWait.at = "raw" /\ clock = Deadline /\ JobStep([jobWait EXCEPT !.at = "failed"])

TimedOut(w) == [w EXCEPT !.late = TRUE]

(* get_status comes back in time, or the wait is told that it is late.         *)
StatusRead ==
  /\ jobWait.at = "busy"
  /\ IF clock < Deadline
     THEN JobStep([jobWait EXCEPT !.at = IF jobWait.initial = 0 THEN "check" ELSE "compare",
                                  !.status = job])
     ELSE JobStep([TimedOut(jobWait) EXCEPT
                     !.at = IF jobWait.initial = 0 THEN "check" ELSE "done"])

(* The status that the polls compare with is the one first reconciled.         *)
Check ==
  /\ jobWait.at = "check"
  /\ LET w == [jobWait EXCEPT !.initial = jobWait.status]
     IN JobStep(IF jobWait.status = Terminal THEN [w EXCEPT !.at = "done"]
                ELSE [w EXCEPT !.at = "poll"])

PollJob ==
  /\ jobWait.at = "poll"
  /\ JobStep(IF clock >= Deadline THEN [TimedOut(jobWait) EXCEPT !.at = "done"]
             ELSE [jobWait EXCEPT !.at = "asleep", !.until = Lesser(clock + Poll, Deadline)])

WakeJob ==
  /\ jobWait.at = "asleep" /\ clock = jobWait.until
  /\ JobStep([jobWait EXCEPT !.at = "busy", !.until = Deadline])

(* A poll ends the wait at a terminal status, or at any change if asked to.    *)
Ends == \/ jobWait.status = Terminal
        \/ jobWait.any /\ jobWait.status # jobWait.initial

Compare ==
  /\ jobWait.at = "compare"
  /\ JobStep([jobWait EXCEPT !.at = IF Ends THEN "done" ELSE "poll"])

WaitNext ==
      \/ FileChanges \/ JobProceeds \/ Tick
      \/ Look \/ Answered \/ Unavailable \/ Judge \/ Wake
      \/ ReadRaw \/ RawLate \/ StatusRead \/ Check \/ PollJob \/ WakeJob \/ Compare

(* A file condition is reported as met only when an unbroken run of successful *)
(* observations, the first of them at least stable_ms ago, all found it: an    *)
(* observation that failed or did not come back starts the count again.        *)
MetWasObserved ==
  fileWait.met =>
    \E n \in 1..Len(waitSeen) :
      /\ waitSeen[n][1] + Stable <= clock
      /\ \A m \in n..Len(waitSeen) : waitSeen[m][2] = "holds"

(* The file wait answers within a moment of its deadline, and the job wait no  *)
(* later than its deadline, although an observation may hang.                  *)
AnswersInTime ==
  /\ fileWait.at # "done" => clock <= Deadline + 1
  /\ jobWait.at \notin {"done", "failed"} => clock <= Deadline

(* A job wait that does not say it timed out ended for the reason asked for: a *)
(* terminal status, or with terminal_only off a status other than the first.   *)
AnswerExplained ==
  jobWait.at = "done" =>
    \/ jobWait.late
    \/ jobWait.status = Terminal
    \/ jobWait.any /\ jobWait.status # jobWait.initial

-------------------------------------------------------------------------------
(*****************************************************************************)
(* isolated_filesystem and the worker process it starts for one operation    *)
(* (filesystem_worker.cpp). The caller sends the request, collects the reply *)
(* in a bounded buffer and may stop the worker at any moment: on its         *)
(* deadline, on a cancellation, or because the reply outgrows the buffer.    *)
(* The worker may also die by itself.                                        *)
(*                                                                           *)
(* An operation reads, or replaces the file through a temporary one; a batch *)
(* reads each id of a list once. The reply is a number of pieces.            *)
(*****************************************************************************)
CONSTANTS Ids, MaxOutput, MaxReply, MaxCalls

VARIABLES call,      \* the caller: "idle", "running" or "killing"
          op,        \* the operation
          length,    \* the pieces its reply has
          worker,    \* the worker process
          ids,       \* the ids of a batch still to read
          workerSeen, \* what a batch has observed: an id and whether it was readable
          says,      \* the reply the worker makes
          output,    \* pieces the caller has collected
          killed,    \* why the caller stops the worker
          workerFile, \* "old" or "new"
          temp,      \* a temporary file is there
          result,    \* what the call returned last
          calls

workerVars == <<call, op, length, worker, ids, workerSeen, says, output, killed, workerFile, temp, result, calls>>

WorkerInit == /\ call = "idle" /\ op = "read" /\ length = 1 /\ worker = "none" /\ ids = <<>> /\ workerSeen = <<>>
              /\ says = "none" /\ output = 0 /\ killed = "no" /\ workerFile = "old" /\ temp = FALSE
              /\ result = "none" /\ calls = 0

\* isolated_filesystem up to spawn_process.
Begin(o, n, list) ==
    /\ call = "idle" /\ calls < MaxCalls /\ calls' = calls + 1
    /\ call' = "running" /\ op' = o /\ length' = n /\ ids' = list /\ workerSeen' = <<>>
    /\ worker' = "working" /\ says' = "none" /\ output' = 0 /\ killed' = "no" /\ result' = "none"
    /\ workerFile' = "old" /\ UNCHANGED temp
\* run_filesystem_worker: a request it cannot use.
Refuse == /\ worker = "working" /\ says' = "error" /\ worker' = "replying" /\ length' = 1
          /\ UNCHANGED <<call, op, ids, workerSeen, output, killed, workerFile, temp, result, calls>>
Read == /\ worker = "working" /\ op = "read" /\ says' = "value" /\ worker' = "replying"
        /\ UNCHANGED <<call, op, length, ids, workerSeen, output, killed, workerFile, temp, result, calls>>
\* job_files_read_batch: a list that names an id twice is refused, an id that cannot be read
\* is an observation of its own.
Repeats(list) == \E i, j \in DOMAIN list : i # j /\ list[i] = list[j]
ReadBatch(readable) ==
    /\ worker = "working" /\ op = "batch" /\ ids # <<>> /\ ~Repeats([n \in 1 .. Len(workerSeen) + Len(ids) |->
                                     IF n <= Len(workerSeen) THEN workerSeen[n].id ELSE ids[n - Len(workerSeen)]])
    /\ workerSeen' = Append(workerSeen, [id |-> Head(ids), readable |-> readable]) /\ ids' = Tail(ids)
    /\ IF Len(ids) = 1 THEN says' = "value" /\ worker' = "replying" ELSE UNCHANGED <<says, worker>>
    /\ UNCHANGED <<call, op, length, output, killed, workerFile, temp, result, calls>>
\* atomic_write: the temporary file, then the rename.
WriteTemp ==
    /\ worker = "working" /\ op = "write" /\ worker' = "written" /\ temp' = TRUE
    /\ UNCHANGED <<call, op, length, ids, workerSeen, says, output, killed, workerFile, result, calls>>
Rename == /\ worker = "written" /\ workerFile' = "new" /\ temp' = FALSE /\ worker' = "replying" /\ says' = "value"
          /\ UNCHANGED <<call, op, length, ids, workerSeen, output, killed, result, calls>>
Fits == output < MaxOutput
\* A piece of the reply; one that does not fit stops the worker.
Piece == /\ worker = "replying" /\ output < length /\ call = "running"
         /\ IF Fits THEN output' = output + 1 /\ UNCHANGED <<call, killed>>
            ELSE killed' = "overflow" /\ call' = "killing" /\ UNCHANGED output
         /\ UNCHANGED <<op, length, worker, ids, workerSeen, says, workerFile, temp, result, calls>>
Exit == /\ worker = "replying" /\ output = length /\ worker' = "exited"
        /\ UNCHANGED <<call, op, length, ids, workerSeen, says, output, killed, workerFile, temp, result, calls>>
\* The worker dies by itself.
Die == /\ worker \in {"working", "written", "replying"} /\ worker' = "died"
       /\ UNCHANGED <<call, op, length, ids, workerSeen, says, output, killed, workerFile, temp, result, calls>>

\* The deadline passes, or the call is cancelled.
Interrupt(why) ==
    /\ call = "running" /\ killed' = why /\ call' = "killing"
    /\ UNCHANGED <<op, length, worker, ids, workerSeen, says, output, workerFile, temp, result, calls>>
\* The worker's process is stopped.
Stop == /\ call = "killing" /\ worker \notin {"died", "exited", "stopped"} /\ worker' = "stopped"
        /\ UNCHANGED <<call, op, length, ids, workerSeen, says, output, killed, workerFile, temp, result, calls>>
\* A mistaken form of Ended: the call does not wait for the worker it stops.
EndedOrStopping == worker \in {"died", "exited", "stopped"} \/ call = "killing"
Ended == worker \in {"died", "exited", "stopped"}
\* The reply is parsed whole; a part of it is an error.
Parsed == IF worker = "exited" THEN says ELSE "failed"
\* The end of isolated_filesystem.
Return ==
    /\ call \in {"running", "killing"} /\ Ended
    /\ result' = CASE killed = "overflow" -> "overflow" [] killed = "cancel" -> "cancelled"
                   [] killed = "timeout" -> "deadline" [] OTHER -> Parsed
    /\ call' = "idle"
    /\ UNCHANGED <<op, length, worker, ids, workerSeen, says, output, killed, workerFile, temp, calls>>

WorkerNext == \/ \E o \in {"read", "write"}, n \in 1 .. MaxReply : Begin(o, n, <<>>)
              \/ \E i, j \in Ids : Begin("batch", 1, <<i, j>>)
              \/ Refuse \/ Read \/ \E b \in BOOLEAN : ReadBatch(b)
              \/ WriteTemp \/ Rename \/ Piece \/ Exit \/ Die
              \/ \E why \in {"timeout", "cancel"} : Interrupt(why)
              \/ Stop \/ Return

\* The file is never seen half written, wherever the worker is stopped or dies.
FileWhole == workerFile \in {"old", "new"}
\* Once the call has returned, with whatever result, its worker changes nothing any more.
NoLateWrite == [][(call = "idle" /\ call' = "idle") => UNCHANGED <<workerFile, temp>>]_workerVars
\* A write that returns a value has happened and a refused one has not; a batch that returns
\* one has observed each of its ids once; and every result but a value or a refusal leaves open
\* what happened.
ValueIsWhole ==
    /\ (call = "idle" /\ result = "value") =>
          /\ output = length /\ (op = "write" => workerFile = "new")
          /\ op = "batch" => (ids = <<>> /\ Cardinality({workerSeen[n].id : n \in DOMAIN workerSeen}) = 2)
    /\ (call = "idle" /\ result = "error") => workerFile = "old"
\* The caller never holds more of a reply than its bound.
ReplyBounded == output <= MaxOutput

-------------------------------------------------------------------------------
(*****************************************************************************)
(* Program output on its way to a reply: bytes arrive in chunks cut          *)
(* anywhere, invalid UTF-8 is replaced, and at most Limit characters are     *)
(* kept, the first half and the last half. Bytes, code points and UTF-16     *)
(* units are numbers.                                                        *)
(*****************************************************************************)
CONSTANTS Bytes,       \* the byte values output is made of
          MaxInput,    \* bytes of output at most
          Limits       \* capture limits

VARIABLES input,       \* what the program has written (history)
          pending,     \* pending_: the bytes of an unfinished character
          capture,     \* head_, tail_, tail_next_, count_, truncated_
          limit, finished

captureVars == <<input, pending, capture, limit, finished>>

Replacement == 65533

(* next_rune: the code point that starts at index i, and the index of the  *)
(* next.  A sequence is given up at the first byte that cannot continue it.*)
Continuations(first) == CASE first \in 194..223 -> 1
                          [] first \in 224..239 -> 2
                          [] first \in 240..244 -> 3
                          [] OTHER -> 0
SecondAllowed(first, c) ==
    /\ first = 224 => c >= 160
    /\ first = 237 => c < 160
    /\ first = 240 => c >= 144
    /\ first = 244 => c < 144
Continues(bytes, i, n) ==
    /\ i + n <= Len(bytes) /\ bytes[i + n] \in 128..191
    /\ n = 1 => SecondAllowed(bytes[i], bytes[i + 1])
Matched(bytes, i) ==
    CHOOSE k \in 0..Continuations(bytes[i]) :
        /\ \A n \in 1..k : Continues(bytes, i, n)
        /\ k < Continuations(bytes[i]) => ~Continues(bytes, i, k + 1)
next_rune(bytes, i) ==
    LET first == bytes[i]
        count == Continuations(first)
        k == Matched(bytes, i)
        bits(n) == bytes[i + n] % 64
    IN  [next |-> i + k + 1,
         rune |-> CASE first < 128 -> first
                    [] count = 0 \/ k < count -> Replacement
                    [] count = 1 -> (first % 32) * 64 + bits(1)
                    [] count = 2 -> (first % 16) * 4096 + bits(1) * 64 + bits(2)
                    [] count = 3 -> (first % 8) * 262144 + bits(1) * 4096 + bits(2) * 64 + bits(3)]

RECURSIVE RunesFrom(_, _)
RunesFrom(bytes, i) ==
    IF i > Len(bytes) THEN <<>>
    ELSE LET r == next_rune(bytes, i) IN <<r.rune>> \o RunesFrom(bytes, r.next)
Runes(bytes) == RunesFrom(bytes, 1)

(* to_utf16 and from_utf16.                                                *)
Units(rune) == IF rune < 65536 THEN <<rune>>
               ELSE <<55296 + (rune - 65536) \div 1024, 56320 + ((rune - 65536) % 1024)>>
to_utf16(bytes) == FlattenSeq([i \in DOMAIN Runes(bytes) |-> Units(Runes(bytes)[i])])
High(u) == u \in 55296..56319
Low(u) == u \in 56320..57343
RECURSIVE from_utf16(_)
from_utf16(units) ==
    IF units = <<>> THEN <<>>
    ELSE IF High(units[1]) /\ Len(units) > 1 /\ Low(units[2])
    THEN <<65536 + (units[1] - 55296) * 1024 + (units[2] - 56320)>> \o from_utf16(SubSeq(units, 3, Len(units)))
    ELSE <<IF High(units[1]) \/ Low(units[1]) THEN Replacement ELSE units[1]>> \o from_utf16(Tail(units))
sanitize_utf8(bytes) == from_utf16(to_utf16(bytes))

(* js_slice: a prefix of ASCII bytes is cut without decoding the rest.     *)
Least(a, b) == IF a < b THEN a ELSE b
Ascii(bytes) == \A i \in DOMAIN bytes : bytes[i] < 128
SliceUnits(units, from, to) ==
    LET start == Least(from, Len(units))
    IN  from_utf16(SubSeq(units, start + 1, Least(to, Len(units))))
Prefix(bytes, to) == SubSeq(bytes, 1, Least(to, Len(bytes)))
js_slice(bytes, from, to) ==
    IF to <= from THEN <<>>
    ELSE IF Ascii(Prefix(bytes, to)) THEN SubSeq(Prefix(bytes, to), from + 1, Least(to, Len(bytes)))
    ELSE SliceUnits(to_utf16(bytes), from, to)

(* url_encode writes three characters for a byte that is not unreserved;   *)
(* url_decode takes them back and then sanitizes.                          *)
Percent == 37
Unreserved(c) == c \in 48..57 \/ c \in 65..90 \/ c \in 97..122 \/ c \in {45, 95, 46, 126}
Digit(n) == IF n < 10 THEN 48 + n ELSE 55 + n
Nibble(c) == CASE c \in 48..57 -> c - 48 [] c \in 97..102 -> c - 87 [] c \in 65..70 -> c - 55 [] OTHER -> -1
url_encode(bytes) ==
    FlattenSeq([i \in DOMAIN bytes |-> IF Unreserved(bytes[i]) THEN <<bytes[i]>>
                                       ELSE <<Percent, Digit(bytes[i] \div 16), Digit(bytes[i] % 16)>>])
RECURSIVE Unescaped(_)
Unescaped(text) ==
    IF text = <<>> THEN <<>>
    ELSE IF text[1] = Percent /\ Len(text) > 2 /\ Nibble(text[2]) >= 0 /\ Nibble(text[3]) >= 0
    THEN <<Nibble(text[2]) * 16 + Nibble(text[3])>> \o Unescaped(SubSeq(text, 4, Len(text)))
    ELSE <<text[1]>> \o Unescaped(Tail(text))
url_decode(text) == sanitize_utf8(Unescaped(text))

(* push_text, one character at a time: up to the limit everything is head; *)
(* at the limit the second half becomes a ring of the latest characters.   *)
Take(c, rune) ==
    LET n == c.count + 1
        cut == IF c.truncated THEN c
               ELSE [c EXCEPT !.head = SubSeq(c.head, 1, limit \div 2),
                              !.tail = SubSeq(c.head, limit \div 2 + 1, Len(c.head)),
                              !.truncated = TRUE]
    IN  IF limit = 0 THEN [c EXCEPT !.count = n, !.truncated = TRUE]
        ELSE IF ~c.truncated /\ n <= limit THEN [c EXCEPT !.head = Append(c.head, rune), !.count = n]
        ELSE [cut EXCEPT !.tail[cut.next + 1] = rune, !.count = n,
                         !.next = (cut.next + 1) % Len(cut.tail)]
push_text(runes) == FoldLeft(Take, capture, runes)

(* push: the bytes from the last lead byte on are kept back while they may *)
(* still become one character.                                             *)
Lead(bytes) == LET leads == {i \in 2..Len(bytes) : bytes[i] \notin 128..191}
               IN  IF leads = {} THEN 1 ELSE CHOOSE i \in leads : \A j \in leads : j <= i
Partial(bytes) ==
    LET lead == Lead(bytes)
    IN  /\ Len(bytes) - lead + 1 < Continuations(bytes[lead]) + 1
        /\ lead < Len(bytes) => SecondAllowed(bytes[lead], bytes[lead + 1])
Boundary(bytes) == IF Partial(bytes) THEN Lead(bytes) - 1 ELSE Len(bytes)
Push(chunk) ==
    LET bytes == pending \o chunk
    IN  /\ input' = input \o chunk
        /\ pending' = SubSeq(bytes, Boundary(bytes) + 1, Len(bytes))
        /\ capture' = push_text(Runes(SubSeq(bytes, 1, Boundary(bytes))))

Finish ==
    /\ capture' = push_text(Runes(pending))
    /\ pending' = <<>>
    /\ finished' = TRUE

snapshot ==
    IF capture.truncated
    THEN [head |-> capture.head,
          tail |-> [i \in DOMAIN capture.tail |-> capture.tail[((capture.next + i - 1) % Len(capture.tail)) + 1]],
          omitted |-> capture.count - Len(capture.head) - Len(capture.tail)]
    ELSE [head |-> capture.head, tail |-> <<>>, omitted |-> 0]

TextInit ==
        /\ input = <<>> /\ pending = <<>> /\ finished = FALSE
        /\ limit \in Limits
        /\ capture = [head |-> <<>>, tail |-> <<>>, next |-> 0, count |-> 0, truncated |-> FALSE]

Arrive ==
    /\ ~finished
    /\ \E n \in 1..(MaxInput - Len(input)) : \E chunk \in [1..n -> Bytes] : Push(chunk)
    /\ UNCHANGED <<limit, finished>>
End == ~finished /\ Finish /\ UNCHANGED <<input, limit>>

TextNext ==
        \/ Arrive
        \/ End

(* However the output was cut into chunks, the reply shows the characters  *)
(* of the whole output: all of them within the limit, otherwise its first  *)
(* and its last half limit, and exactly how many were left out.            *)
ChunksDoNotMatter ==
    finished =>
        LET text == Runes(input)
            half == limit \div 2
        IN  snapshot = IF Len(text) <= limit
                       THEN [head |-> text, tail |-> <<>>, omitted |-> 0]
                       ELSE [head |-> SubSeq(text, 1, half),
                             tail |-> SubSeq(text, Len(text) - (limit - half) + 1, Len(text)),
                             omitted |-> Len(text) - limit]

(* The path of js_slice that does not decode gives what decoding the whole *)
(* text gives, whatever follows the ASCII prefix.                          *)
SliceNeedsNoRest ==
    \A from, to \in 0..MaxInput :
        js_slice(input, from, to) = IF to <= from THEN <<>> ELSE SliceUnits(to_utf16(input), from, to)

(* Going through UTF-16 or through a URL changes nothing but what is not   *)
(* UTF-8.                                                                  *)
CodecsAgree == sanitize_utf8(input) = Runes(input) /\ url_decode(url_encode(input)) = Runes(input)
===============================================================================
