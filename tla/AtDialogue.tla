------------------------------ MODULE AtDialogue ------------------------------
(***************************************************************************)
(* What is said on the serial line while one job after another uses it:    *)
(* AtPort (at/mod.rs), the filter that takes the +GT lines out of what is  *)
(* read (at/urc.rs), and the dialogue of sms::send, which turns the modem  *)
(* into a receiver of text for a while.  AtQueue.tla says which job is     *)
(* next and AtSlot.tla which port it gets; both see a job as one step.     *)
(* The count of silent commands is AtSlot's port.silent.                   *)
(*                                                                         *)
(* Lines are records, in the order they are sent; a read returns any part  *)
(* of what has arrived and may stop in the middle of a line.  The modem    *)
(* starts each line with a line break, so a line also ends an unfinished   *)
(* one; the prompt is never followed by a break of its own.  The proxy in  *)
(* the modem (atproxy.c) only ends its lines with one: what it says behind *)
(* a prompt is one line with it.  Of what a wait has collected only the    *)
(* last line and which lines there are matter.                             *)
(***************************************************************************)
EXTENDS Naturals, Sequences, SequencesExt

CONSTANTS
  QueueCap,    \* QUEUE_CAP
  MaxJobs,     \* bound: jobs
  MaxUrcs,     \* bound: +GT lines
  MaxBacklog,  \* bound: lines the modem has not read when a wait ends
  MaxFaults    \* bound: commands the modem ignores, notes of the proxy, and cuts

ASSUME DialogueAssumption == QueueCap \in Nat \ {0} /\ MaxJobs \in Nat

VARIABLES
  up,       \* what has been written and not yet been read by the modem
  down,     \* what the modem has sent and has not been read
  modem,    \* whether it takes text or commands, and has junk on its line
  accepted, \* the messages it has taken over
  open,     \* the port is open (and the handshake made)
  gate,     \* LineGate.buf: the pieces of the line whose end has not been read
  raw,      \* the lines the current wait has collected, without +GT lines, and the last
  job,      \* the latest job: its number and kind
  pc,       \* where its dialogue is
  told,     \* what its caller was told, until a port is opened again
  feed,     \* FeedInner: events queued, and dropped so far
  urcs,     \* +GT lines: sent, gone (taken by GtWatch or lost with a port), and
            \* read over behind a prompt
  behind,   \* history: something earlier was outstanding when the job, or the
            \* handshake, began
  cut,      \* history: the port was lost since the last send began
  faults

lineVars == <<up, down>>
modemVars == <<modem, accepted>>
hostVars == <<open, gate, raw, job, pc, told, behind>>
dialogueVars == <<lineVars, modemVars, hostVars, feed, urcs, cut, faults>>

-----------------------------------------------------------------------------
(* What is sent *)

NoLine == [k |-> "none"]
Rest == [k |-> "rest"]             \* the end of a +GT line whose start has been read
Urc == [k |-> "urc"]               \* +GTNORA, +GTIFMTU, +GTIFST, +GTIFADDR, +GTIFEVT
Note == [k |-> "note"]             \* +GTEMBIND: not one of the five
Said(k, to) == [k |-> k, job |-> job.n, to |-> to]
Answer(k, t) == [k |-> k, job |-> t.job, to |-> t.to]

IsUrc(l) == l.k = "urc"
IsPrompt(l) == l.k = "prompt"
Final(l) == l.k \in {"ok", "error"}

\* A job's own lines: "cmd" is its command, "text" the message, "esc" and
\* "sync" how a failed send ends; a port is opened with "echo" and "cmee".
Phases == {"cmd", "text", "esc", "sync", "echo", "cmee"}
UpLines == [k : {"line", "cmgs", "text", "z", "esc"}, job : 0..MaxJobs, to : Phases]
DownLines == [k : {"info", "ok", "error", "prompt"}, job : 0..MaxJobs, to : Phases]
               \cup {Urc, Note, Rest}

Waits == {"cmee", "cmd", "prompt", "text", "sync"}

\* What a wait may have collected: some lines and the last of them, or none.
Nothing == [lines |-> {}, last |-> NoLine]
Just(l) == [lines |-> {l}, last |-> l]
Joined(r, more) ==
  [lines |-> r.lines \cup more.lines, last |-> IF more = Nothing THEN r.last ELSE more.last]

DialogueInit ==
  /\ up = <<>> /\ down = <<>>
  /\ modem = [mode |-> "command", junk |-> FALSE] /\ accepted = {}
  /\ open = FALSE /\ gate = <<>> /\ raw = Nothing
  /\ job = [n |-> 0, kind |-> "none"] /\ pc = "idle" /\ told = "nothing" /\ behind = FALSE
  /\ feed = [queued |-> 0, dropped |-> 0]
  /\ urcs = [sent |-> 0, gone |-> 0, glued |-> 0]
  /\ cut = FALSE /\ faults = 0

-----------------------------------------------------------------------------
(* LineGate and the queue of events *)

\* push_event() for n lines that capture_line() has recognised: a full queue
\* loses its oldest events.  What a line says is left out; one that cannot be
\* parsed is swallowed and counted like the others.
Capture(n) ==
  LET over == IF feed.queued + n > QueueCap THEN feed.queued + n - QueueCap ELSE 0 IN
  [feed EXCEPT !.queued = @ + n - over, !.dropped = @ + over]

Urcs(lines) == Cardinality({i \in DOMAIN lines : IsUrc(lines[i])})

\* +GT lines that are one line with a prompt, "> +GT...": capture_line() does
\* not know them.
Glued(lines) ==
  Cardinality({i \in DOMAIN lines : IsUrc(lines[i]) /\ i > 1 /\ IsPrompt(lines[i - 1])})

\* The lines that are not +GT lines; a glued one is its prompt.
Passed(lines) ==
  LET others == {i \in DOMAIN lines : ~IsUrc(lines[i])} IN
  IF others = {} THEN Nothing
  ELSE [lines |-> {lines[i] : i \in others}, last |-> lines[Max(others)]]

\* How many pieces of what a read returned have no end yet: a prompt, a +GT
\* line that was cut, or both.
Unfinished(chunk, half) ==
  IF chunk = <<>> \/ (~half /\ ~IsPrompt(Last(chunk))) THEN 0
  ELSE IF half /\ Len(chunk) > 1 /\ IsPrompt(chunk[Len(chunk) - 1]) THEN 2 ELSE 1

\* LineGate::feed() on the lines of a read, the line in the gate in front:
\* the unfinished one stays, +GT lines become events, the others come out.
FaultyFeed(chunk, half) ==  \* lets the start of a line out
  LET whole == IF half THEN Front(chunk) ELSE chunk IN
  [gate  |-> <<>>,
   out   |-> IF half THEN Joined(Passed(whole), Just(Last(chunk))) ELSE Passed(chunk),
   feed  |-> Capture(Urcs(whole) - Glued(whole)),
   glued |-> Glued(whole)]

Feed(chunk, half) ==
  LET kept == Len(chunk) - Unfinished(chunk, half)
      whole == SubSeq(chunk, 1, kept) IN
  [gate  |-> SubSeq(chunk, kept + 1, Len(chunk)),
   out   |-> Passed(whole),
   feed  |-> Capture(Urcs(whole) - Glued(whole)),
   glued |-> Glued(whole)]

\* What a read of n lines hands to the filter: the rest of a line that has
\* been started, the first to arrive, belongs to the line in the gate.
Started == gate # <<>> /\ IsUrc(Last(gate))
Chunk(n) == gate \o SubSeq(down, IF Started THEN 2 ELSE 1, n)

\* A read may stop inside its last line; to stop inside an answer is the same
\* as to read it later, so only +GT lines are divided.
Divisible(n) == n > 0 /\ IsUrc(down[n])
After(n, half) == (IF half THEN <<Rest>> ELSE <<>>) \o SubSeq(down, n + 1, Len(down))

-----------------------------------------------------------------------------
(* AtPort *)

\* drain(): everything that has arrived goes through the filter and is
\* forgotten; the last line may still be arriving.
FaultyDrain(half) == ~half /\ UNCHANGED <<down, gate, feed, urcs>>

Drain(half) ==
  LET n == Len(down)
      f == Feed(Chunk(n), half) IN
  /\ half => Divisible(n)
  /\ down' = After(n, half)
  /\ gate' = f.gate
  /\ feed' = f.feed
  /\ urcs' = [urcs EXCEPT !.glued = @ + f.glued]

\* The start of command() and of command_prompt().
Write(line, next) ==
  /\ \E half \in BOOLEAN : Drain(half)
  /\ up' = Append(up, line)
  /\ raw' = Nothing
  /\ pc' = next

\* Something may still come that is not for what is written now.
Outstanding == up # <<>> \/ gate' \notin {<<>>, <<Urc>>}

\* AtPort::open(): ATE0 is written and its answer drained, unless it is
\* late; CMEE is a command like others.
Open ==
  /\ pc = "idle" /\ ~open
  /\ pc' = "echo"
  /\ up' = Append(up, Said("line", "echo"))
  /\ told' = "nothing"
  /\ UNCHANGED <<down, modemVars, open, gate, raw, job, behind, feed, urcs, cut, faults>>

Hello ==
  /\ pc = "echo"
  /\ Write(Said("line", "cmee"), "cmee")
  /\ behind' = Outstanding
  /\ UNCHANGED <<modemVars, open, job, told, cut, faults>>

\* A job starts: one command, or the command in sms::send that asks for a
\* prompt.
Begin(kind) ==
  /\ pc = "idle" /\ open /\ job.n < MaxJobs
  /\ job' = [n |-> job.n + 1, kind |-> kind]
  /\ LET k == IF kind = "send" THEN "cmgs" ELSE "line" IN
     Write([k |-> k, job |-> job.n + 1, to |-> "cmd"], IF kind = "send" THEN "prompt" ELSE "cmd")
  /\ behind' = Outstanding
  /\ told' = "nothing"
  /\ cut' = (cut /\ kind # "send")
  /\ UNCHANGED <<modemVars, open, faults>>

Concludes(answer) ==
  /\ pc' = "idle"
  /\ told' = answer
  /\ open' = TRUE
  /\ UNCHANGED <<up, behind>>

\* The end of a send that failed: ESC, and after 300 ms the command AT.  The
\* caller hears what route.rs makes of the error's text: "unknown" if it speaks
\* of a timeout, else "rejected".
FaultyAbandon(outcome) ==   \* no ESC
  /\ pc' = "failed"
  /\ told' = outcome
  /\ UNCHANGED <<up, open, behind>>

Abandon(outcome) ==
  /\ up' = Append(up, Said("esc", "esc"))
  /\ pc' = "settle"
  /\ told' = outcome
  /\ UNCHANGED <<open, behind>>

Resync ==
  /\ pc = "settle"
  /\ Write(Said("line", "sync"), "sync")
  /\ UNCHANGED <<modemVars, open, job, told, behind, cut, faults>>

Resynced ==
  /\ pc' = "failed"
  /\ UNCHANGED <<up, open, told, behind>>

\* The port is closed, and what was on its way from it is gone.
InFlight == Urcs(down) + Urcs(gate)
Closes ==
  /\ open' = FALSE /\ gate' = <<>> /\ raw' = Nothing /\ down' = <<>>
  /\ urcs' = [urcs EXCEPT !.gone = @ + InFlight]

\* A job that returns an error costs the worker its handle.
DropHandle ==
  /\ pc = "failed" /\ pc' = "idle"
  /\ Closes
  /\ UNCHANGED <<up, modemVars, job, told, behind, feed, cut, faults>>

\* The prompt is there: the message and Ctrl-Z.
SendText ==
  /\ up' = up \o <<Said("text", "text"), Said("z", "text")>>
  /\ pc' = "text"
  /\ UNCHANGED <<open, told, behind>>

\* finished(): the last line is a result code.
Finished(r) == Final(r.last)

Prompted(r) == \E l \in r.lines : IsPrompt(l)

\* wait_result(): only OK is success.
FaultyAccepts(r) == Final(r.last)
Accepts(r) == r.last.k = "ok"

\* What the current wait does with what it has collected.
Consider(r) ==
  \/ /\ pc = "prompt" /\ Prompted(r)
     /\ SendText /\ raw' = Nothing
  \/ /\ pc = "prompt" /\ ~Prompted(r) /\ Finished(r)
     /\ Abandon("rejected") /\ raw' = Nothing
  \/ /\ pc = "text" /\ Finished(r)
     /\ IF Accepts(r) THEN Concludes("sent") ELSE Abandon("rejected")
     /\ raw' = Nothing
  \/ /\ pc = "sync" /\ Finished(r)
     /\ Resynced /\ raw' = Nothing
  \/ /\ pc \in {"cmd", "cmee"} /\ Finished(r)
     /\ Concludes("answer") /\ raw' = r
  \/ /\ ~Finished(r) /\ ~(pc = "prompt" /\ Prompted(r))
     /\ raw' = r
     /\ UNCHANGED <<up, open, pc, told, behind>>

\* One turn of the loop of command(), command_prompt() or wait_result().  A
\* prompt left in the filter is taken from it by the one that waits for it,
\* with what has arrived of the line behind it.
Read(n, half) ==
  /\ pc \in Waits /\ n \in 1..Len(down)
  /\ half => Divisible(n)
  /\ LET f == Feed(Chunk(n), half)
         prompted == pc = "prompt" /\ f.gate # <<>> /\ IsPrompt(f.gate[1]) IN
     /\ gate' = IF prompted THEN <<>> ELSE f.gate
     /\ feed' = f.feed
     /\ urcs' = [urcs EXCEPT !.glued = @ + f.glued + IF prompted THEN Urcs(f.gate) ELSE 0]
     /\ Consider(Joined(Joined(raw, f.out), IF prompted THEN Just(f.gate[1]) ELSE Nothing))
  /\ down' = After(n, half)
  /\ UNCHANGED <<modemVars, job, cut, faults>>

\* The deadline of a wait: a command returns what it has, even nothing; a
\* send fails.
FaultySilence == "rejected"
Silence == "unknown"

Timeout ==
  /\ pc \in Waits /\ Len(up) <= MaxBacklog
  /\ \/ pc \in {"prompt", "text"} /\ Abandon(Silence)
     \/ pc = "sync" /\ Resynced
     \/ pc \in {"cmd", "cmee"} /\ Concludes("answer")
  /\ raw' = Nothing
  /\ UNCHANGED <<down, modemVars, gate, job, feed, urcs, cut, faults>>

\* GtWatch::tick() takes what is queued.
TakeEvents ==
  /\ feed.queued > 0
  /\ feed' = [feed EXCEPT !.queued = 0]
  /\ urcs' = [urcs EXCEPT !.gone = @ + feed.queued]
  /\ UNCHANGED <<lineVars, modemVars, hostVars, cut, faults>>

-----------------------------------------------------------------------------
(* The modem *)

Says(lines) == down' = down \o lines

\* A command is answered, with a line of information or without; what is on
\* the line already spoils it.
Obey(t) ==
  /\ modem' = [modem EXCEPT !.junk = FALSE]
  /\ \/ ~modem.junk /\ Says(<<Answer("info", t), Answer("ok", t)>>)
     \/ Says(<<Answer("error", t)>>)
  /\ UNCHANGED accepted

\* It asks for the text of a message, or refuses.
Ask(t) ==
  /\ \/ /\ ~modem.junk
        /\ modem' = [modem EXCEPT !.mode = "text"]
        /\ Says(<<Answer("prompt", t)>>)
     \/ /\ modem' = [modem EXCEPT !.junk = FALSE]
        /\ Says(<<Answer("error", t)>>)
  /\ UNCHANGED accepted

\* Ctrl-Z ends the text: the message is taken over, or refused; with other
\* lines in it, it is refused.
EndText(t) ==
  /\ modem' = [mode |-> "command", junk |-> FALSE]
  /\ \/ /\ ~modem.junk
        /\ Says(<<Answer("ok", t)>>)
        /\ accepted' = accepted \cup {t.job}
     \/ Says(<<Answer("error", t)>>) /\ UNCHANGED accepted

\* ESC ends it too, with OK or without a word.
Escape(t) ==
  /\ modem' = [mode |-> "command", junk |-> FALSE]
  /\ \/ Says(<<Answer("ok", t)>>)
     \/ UNCHANGED down
  /\ UNCHANGED accepted

\* What comes at the wrong time: commands are taken for text, text for the
\* start of a command; ESC and Ctrl-Z do nothing.
Misread(t) ==
  /\ modem' = [modem EXCEPT !.junk = @ \/ (t.k \notin {"z", "esc"}
                                          /\ ~(modem.mode = "text" /\ t.k = "text"))]
  /\ UNCHANGED <<down, accepted>>

ModemReads ==
  /\ up # <<>>
  /\ up' = Tail(up)
  /\ LET t == Head(up) IN
     \/ modem.mode = "command" /\ t.k = "line" /\ Obey(t)
     \/ modem.mode = "command" /\ t.k = "cmgs" /\ Ask(t)
     \/ modem.mode = "command" /\ t.k \in {"text", "z", "esc"} /\ Misread(t)
     \/ modem.mode = "text" /\ t.k = "z" /\ EndText(t)
     \/ modem.mode = "text" /\ t.k = "esc" /\ Escape(t)
     \/ modem.mode = "text" /\ t.k \in {"line", "cmgs", "text"} /\ Misread(t)
  /\ UNCHANGED <<hostVars, feed, urcs, cut, faults>>

\* It is busy and a command is lost on it.
ModemIgnores ==
  /\ faults < MaxFaults /\ faults' = faults + 1
  /\ up # <<>> /\ Head(up).k \in {"line", "cmgs"}
  /\ up' = Tail(up)
  /\ UNCHANGED <<down, modemVars, hostVars, feed, urcs, cut>>

\* A line of the proxy in the modem, anywhere between the lines that have not
\* been read, but not inside one.
Emit(i, l) ==
  /\ i \in 1..Len(down) + 1 /\ (i <= Len(down) => down[i] # Rest)
  /\ down' = InsertAt(down, i, l)
  /\ UNCHANGED <<up, modemVars, hostVars, feed, cut>>

SendUrc(i) ==
  /\ urcs.sent < MaxUrcs
  /\ urcs' = [urcs EXCEPT !.sent = @ + 1]
  /\ Emit(i, Urc)
  /\ UNCHANGED faults

SendNote(i) ==
  /\ faults < MaxFaults /\ faults' = faults + 1
  /\ Emit(i, Note)
  /\ UNCHANGED urcs

-----------------------------------------------------------------------------
(* Cuts *)

\* What a caller hears when the port goes: a write that fails is a refusal,
\* reads that fail are a timeout; once a send has failed it stays as it was.
CutOutcomes ==
  CASE pc = "cmd" -> {"failed"}
    [] pc = "prompt" -> {"rejected", "unknown"}
    [] pc = "text" -> {"unknown"}
    [] OTHER -> {told}

\* The port is gone while a job has it (a write fails, the worker drops the
\* handle), or the daemon is killed and with it the queue of events.  What
\* has been written still reaches the modem, unless it has restarted.
Cut ==
  /\ faults < MaxFaults /\ faults' = faults + 1
  /\ pc \notin {"idle", "echo", "cmee"}
  /\ pc' = "idle" /\ told' \in CutOutcomes
  /\ Closes
  /\ \/ UNCHANGED <<up, modem>> /\ cut' = TRUE
     \/ up' = <<>> /\ modem' = [mode |-> "command", junk |-> FALSE] /\ cut' = FALSE
  /\ UNCHANGED <<accepted, job, behind, feed>>

DialogueNext ==
  \/ Open
  \/ Hello
  \/ \E kind \in {"query", "send"} : Begin(kind)
  \/ \E n \in 1..Len(down), half \in BOOLEAN : Read(n, half)
  \/ Timeout
  \/ Resync
  \/ DropHandle
  \/ TakeEvents
  \/ ModemReads
  \/ ModemIgnores
  \/ \E i \in 1..Len(down) + 1 : SendUrc(i) \/ SendNote(i)
  \/ Cut

DialogueSpec == DialogueInit /\ [][DialogueNext]_dialogueVars

-----------------------------------------------------------------------------
(* Properties *)

\* Shape of the state.
DialogueTypeOK ==
  /\ up \in Seq(UpLines) /\ down \in Seq(DownLines)
  /\ modem \in [mode : {"command", "text"}, junk : BOOLEAN]
  /\ accepted \subseteq 1..MaxJobs
  /\ open \in BOOLEAN
  /\ gate \in Seq(DownLines)
  /\ raw \in [lines : SUBSET DownLines, last : DownLines \cup {NoLine}]
  /\ job \in [n : 0..MaxJobs, kind : {"none", "query", "send"}]
  /\ pc \in Waits \cup {"idle", "echo", "settle", "failed"}
  /\ told \in {"nothing", "answer", "sent", "rejected", "unknown", "failed"}
  /\ feed \in [queued : 0..QueueCap, dropped : Nat]
  /\ urcs \in [sent : Nat, gone : Nat, glued : Nat]
  /\ behind \in BOOLEAN /\ cut \in BOOLEAN

\* A send that is over, however it ended and however late the modem was,
\* leaves nothing that the modem takes for text: once it has read what was
\* written it takes commands again (sms/mod.rs:29-38, :133-155).  Only a
\* send that was cut off with its port can leave it there.
InputIsClosed ==
  (pc = "idle" /\ up = <<>> /\ modem.mode = "text") => cut

\* A command that was written when nothing was outstanding gets its own
\* answer, never that of an earlier command, of the end of a failed send or
\* of a handshake (at/mod.rs:247-310: the drain before each command).  What
\* the proxy says beside it may come in between.
AnswerIsOwn ==
  [][(pc \in {"cmd", "cmee"} /\ ~behind) =>
       \A l \in raw'.lines \ {Note, Rest} : l.job = job.n /\ l.to = pc]_dialogueVars

\* A message that is reported as sent has been taken over by the modem
\* (at/mod.rs:385-410).
SentIsTrue ==
  (told = "sent" /\ ~behind) => job.n \in accepted

\* A message that is reported as rejected, which a user may send again, has
\* not been taken over and will not be, for nothing of it that would end its
\* text is on its way (route.rs:576-587); one whose send timed out is
\* "unknown".  A send that began behind something outstanding can be ended by
\* an error that is not its own.
RejectedIsNotSent ==
  (told = "rejected" /\ ~behind) =>
    /\ job.n \notin accepted
    /\ \A i \in DOMAIN up : up[i].k = "z" => up[i].job # job.n

\* However the lines are cut by the reads, a +GT line never becomes part of
\* an answer, and each is counted once: queued, taken, dropped from a full
\* queue, or lost with a port that was closed; only one that is one line with
\* a prompt is read over (at/urc.rs:239-394).
UrcsAccounted ==
  /\ \A l \in raw.lines : ~IsUrc(l)
  /\ urcs.sent = InFlight + feed.queued + feed.dropped + urcs.gone + urcs.glued
=============================================================================
