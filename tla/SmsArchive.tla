----------------------------- MODULE SmsArchive -----------------------------
(***************************************************************************)
(* The messages the page sends to one number: the window in which the same *)
(* submission is refused (sms_action of api/route.rs), and the file in     *)
(* which a confirmed message is kept (sms/archive.rs), which other         *)
(* requests read and rewrite meanwhile.  How a send goes, and what the     *)
(* page is told of it, is in AtDialogue.tla.  The daemon serves requests   *)
(* side by side (rpc/mod.rs); the plugin makes one at a time, but does not *)
(* wait for those it has given up (RequestPath).                           *)
(*                                                                         *)
(* The file is the set of its lines and a last one that has no end yet: an *)
(* append writes a record and its line end in two writes, nothing locks    *)
(* the file, and only a line that holds one whole record is read; in which *)
(* order, and how often, matters to nothing here.  A write may fail, or    *)
(* write a part, and nobody hears of it.  A part of a record may end       *)
(* inside a character: a line that cannot be decoded ends all reading of   *)
(* the file.  A process that removes the file leaves the others writing to *)
(* the old one.  The rewriting of a file is one step: there is no reader   *)
(* that could tell.                                                        *)
(***************************************************************************)
EXTENDS Naturals

CONSTANTS
  Texts,       \* the texts sent
  DedupKeys,   \* the dedup_keys: number and text, or what the page chooses
  Requests,    \* the requests being served at a time
  Window,      \* SMS_DEDUP_WINDOW, in ticks
  MaxSubmits,  \* bound: submissions
  MaxDrops,    \* bound: deletions from the archive
  MaxDeaths    \* bound: deaths of the daemon

ASSUME ArchiveAssumption == Window \in Nat \ {0}

VARIABLES
  window,  \* sms_dedup: how long each key is still refused
  req,     \* the request each of Requests serves
  file,    \* which file it is; its lines, whether one of them cannot be
           \* decoded, those hidden behind it, and the one without an end
  life,    \* submissions, deletions and deaths so far
  kept     \* history: the texts whose records nothing should have touched

archiveVars == <<window, req, file, life, kept>>

Stamps == {"stamped", "none"}
Record == [text : Texts, time : Stamps]
Junk == [text |-> "none", time |-> "junk"]        \* a line that is no record
Torn == [text |-> "none", time |-> "torn"]        \* one that cannot be decoded
Nothing == [text |-> "none", time |-> "nothing"]  \* no line
Lines == Record \cup {Junk}

Empty(id) == [id |-> id, lines |-> {}, torn |-> FALSE, hidden |-> {}, tail |-> Nothing]
Ended == file.tail = Nothing

\* pc: "sending": from the submission to the end of the three AT jobs of
\* sms::send; "open": the modem has confirmed; "check", "line", "end":
\* record_sent; "cut", "rewrite": drop.
\* alone (history): no other request was at the file since this one came.
Idle == [pc |-> "idle", rec |-> Nothing, id |-> 0, keep |-> {}, alone |-> TRUE]
AtFile == {"check", "line", "end", "cut", "rewrite"}

ArchiveInit ==
  /\ window = [k \in DedupKeys |-> 0]
  /\ req = [r \in Requests |-> Idle]
  /\ file = Empty(0)
  /\ life = [submits |-> 0, drops |-> 0, deaths |-> 0]
  /\ kept = {}

At(r, pc) == req[r].pc = pc
To(r, new) == req' = [req EXCEPT ![r] = new]
Goes(r, pc) == To(r, [req[r] EXCEPT !.pc = pc])
Ends(r) == To(r, Idle)

\* A request comes to the file: those already there are no longer alone.
Comes(r, new) ==
  req' = [x \in Requests |->
    IF x = r THEN [new EXCEPT !.alone = \A y \in Requests \ {r} : req[y].pc \notin AtFile]
    ELSE IF req[x].pc \in AtFile THEN [req[x] EXCEPT !.alone = FALSE]
    ELSE req[x]]
-----------------------------------------------------------------------------
(* The file.                                                               *)

\* What is hashed; a record is stored with that of a record without a time.
Fingerprint(rec) == rec
Stored(rec) == Fingerprint([rec EXCEPT !.time = "none"])

\* read_records: up to the first line that cannot be decoded.
ReadRecords == (file.lines \cup IF file.torn THEN {} ELSE {file.tail}) \cap Record
Readable(text) == \E rec \in ReadRecords : rec.text = text

\* Written behind a line that has no end, a record spoils both.
Appended(rec) ==
  [file EXCEPT !.tail = CASE Ended -> rec [] file.tail = Torn -> Torn [] OTHER -> Junk]

\* A part of a record is written.
Spoiled ==
  {[file EXCEPT !.tail = last] : last \in IF file.tail = Torn THEN {Torn} ELSE {Junk, Torn}}

LineEnded ==
  LET line == IF Ended THEN Junk ELSE file.tail
      done == [file EXCEPT !.tail = Nothing] IN
  IF line = Torn THEN [done EXCEPT !.torn = TRUE]
  ELSE IF file.torn THEN [done EXCEPT !.hidden = @ \cup {line}]
  ELSE [done EXCEPT !.lines = @ \cup {line}]

\* Lines written from the start of the file over what was appended since it was
\* cut: of that, some lines are left, behind the end of one that may begin
\* inside a character.
Overwritten(keep) ==
  IF keep = {} THEN {file}
  ELSE IF file = Empty(file.id) THEN {[file EXCEPT !.lines = keep]}
  ELSE LET rest == SUBSET (file.lines \cup file.hidden \cup {Junk})
           more == {keep \cup left : left \in rest}
           ends == {Nothing, file.tail} \cup IF Ended THEN {} ELSE {Junk, Torn} IN
       [id : {file.id}, lines : more, torn : {FALSE}, hidden : {{}}, tail : ends]
       \cup [id : {file.id}, lines : more, torn : {TRUE}, hidden : rest, tail : ends]

\* Some of the writes fail: some of the lines are missing, or are not whole.
Botched(keep) ==
  LET written == keep \cup file.lines \cup file.hidden \cup {Junk} IN
  [id : {file.id}, lines : SUBSET written, torn : BOOLEAN, hidden : SUBSET written,
   tail : keep \cup {Nothing, Junk, Torn, file.tail}]
-----------------------------------------------------------------------------
(* Sending.                                                                *)

\* A submission enters the window, unless its key is in it; if the modem is
\* absent it has entered all the same.
Submit(r, t, k) ==
  /\ At(r, "idle") /\ life.submits < MaxSubmits
  /\ window[k] = 0
  /\ window' = [window EXCEPT ![k] = Window]
  /\ life' = [life EXCEPT !.submits = @ + 1]
  /\ \/ UNCHANGED req
     \/ \E time \in Stamps :
          To(r, [Idle EXCEPT !.pc = "sending", !.rec = [text |-> t, time |-> time]])
  /\ UNCHANGED <<file, kept>>

\* The send ends, confirmed or not.
Answer(r) ==
  /\ At(r, "sending")
  /\ Goes(r, "open") \/ Ends(r)
  /\ UNCHANGED <<window, file, life, kept>>

\* record_sent: the file is opened, and made if need be.
Open(r) ==
  /\ At(r, "open")
  /\ \/ Comes(r, [req[r] EXCEPT !.pc = "check", !.id = file.id])
     \/ Ends(r)
  /\ UNCHANGED <<window, file, life, kept>>

\* The path is read: a message already there is not written again.
Check(r) ==
  /\ At(r, "check")
  /\ \/ /\ \E rec \in ReadRecords : Stored(rec) = Stored(req[r].rec)
        /\ Ends(r)
        /\ kept' = IF req[r].alone /\ Ended THEN kept \cup {req[r].rec.text} ELSE kept
     \/ /\ \A rec \in ReadRecords : Stored(rec) # Stored(req[r].rec)
        /\ Goes(r, "line")
        /\ UNCHANGED kept
  /\ UNCHANGED <<window, file, life>>

\* writeln!: the record, and its line end unless that fails ...
WriteLine(r) ==
  /\ At(r, "line")
  /\ \/ /\ file' = IF req[r].id = file.id THEN Appended(req[r].rec) ELSE file
        /\ To(r, [req[r] EXCEPT !.pc = "end", !.alone = @ /\ Ended])
     \/ /\ \/ UNCHANGED file
           \/ req[r].id = file.id /\ file' \in Spoiled
        /\ Ends(r)
  /\ UNCHANGED <<window, life, kept>>

\* ... or the line end fails.
WriteEnd(r) ==
  /\ At(r, "end")
  /\ \/ /\ file' = IF req[r].id = file.id THEN LineEnded ELSE file
        /\ kept' = IF req[r].alone /\ ~file.torn THEN kept \cup {req[r].rec.text} ELSE kept
     \/ UNCHANGED <<file, kept>>
  /\ Ends(r)
  /\ UNCHANGED <<window, life>>
-----------------------------------------------------------------------------
(* Deleting.                                                               *)

\* store_drop of a conversation: the file is removed, if it can be.
DropAll(r) ==
  /\ At(r, "idle") /\ life.drops < MaxDrops
  /\ life' = [life EXCEPT !.drops = @ + 1]
  /\ Comes(r, Idle)
  /\ \/ file' = Empty(file.id + 1) /\ kept' = {}
     \/ UNCHANGED <<file, kept>>
  /\ UNCHANGED window

\* The records that are named are left, the others go.
FaultyRemaining(item) == {rec \in ReadRecords : Stored(rec) = Fingerprint(item)}

Remaining(item) == {rec \in ReadRecords : Stored(rec) # Fingerprint(item)}

\* store_drop of one record, named by the fields the page has read: if one is
\* found the file will be written anew.
DropOne(r, item) ==
  /\ At(r, "idle") /\ life.drops < MaxDrops
  /\ life' = [life EXCEPT !.drops = @ + 1]
  /\ \/ /\ Remaining(item) = ReadRecords
        /\ Comes(r, [Idle EXCEPT !.rec = item])
        /\ UNCHANGED kept
     \/ /\ Remaining(item) # ReadRecords
        /\ Comes(r, [Idle EXCEPT !.pc = "cut", !.rec = item, !.keep = Remaining(item)])
        /\ kept' = IF \E x \in Requests : At(x, "rewrite") THEN {} ELSE kept \ {item.text}
  /\ UNCHANGED <<window, file>>

\* File::create cuts the file to nothing; if it fails nothing is deleted.
Cut(r) ==
  /\ At(r, "cut")
  /\ \/ /\ file' = Empty(file.id)
        /\ To(r, [req[r] EXCEPT !.pc = "rewrite", !.id = file.id])
     \/ /\ Ends(r)
        /\ UNCHANGED file
  /\ UNCHANGED <<window, life, kept>>

\* What was kept is written; that some of it was not is not noticed.
Rewrite(r) ==
  /\ At(r, "rewrite")
  /\ \/ /\ IF req[r].id = file.id THEN file' \in Overwritten(req[r].keep) ELSE UNCHANGED file
        /\ UNCHANGED kept
     \/ /\ req[r].keep # {}
        /\ IF req[r].id = file.id THEN file' \in Botched(req[r].keep) ELSE UNCHANGED file
        /\ kept' = {}
  /\ Ends(r)
  /\ UNCHANGED <<window, life>>
-----------------------------------------------------------------------------
ArchiveTick ==
  /\ \E k \in DedupKeys : window[k] > 0
  /\ window' = [k \in DedupKeys |-> IF window[k] > 0 THEN window[k] - 1 ELSE 0]
  /\ UNCHANGED <<req, file, life, kept>>

\* The daemon ends (the watchdog of AtQueue, a signal) and is started again:
\* the window is forgotten, and a file that was cut stays so.
Die ==
  /\ life.deaths < MaxDeaths
  /\ life' = [life EXCEPT !.deaths = @ + 1]
  /\ kept' = IF \E r \in Requests : At(r, "rewrite") THEN {} ELSE kept
  /\ window' = [k \in DedupKeys |-> 0]
  /\ req' = [r \in Requests |-> Idle]
  /\ UNCHANGED file

RecordSent(r) == Open(r) \/ Check(r) \/ WriteLine(r) \/ WriteEnd(r)

ArchiveNext ==
  \/ \E r \in Requests :
       \/ \E t \in Texts, k \in DedupKeys : Submit(r, t, k)
       \/ Answer(r) \/ RecordSent(r)
       \/ DropAll(r) \/ (\E item \in Record : DropOne(r, item)) \/ Cut(r) \/ Rewrite(r)
  \/ ArchiveTick \/ Die

ArchiveSpec == ArchiveInit /\ [][ArchiveNext]_archiveVars
-----------------------------------------------------------------------------
(* Properties.                                                             *)

Served == [pc : {"idle", "sending", "open"} \cup AtFile, rec : Record \cup {Nothing}, id : Nat,
           keep : SUBSET Record, alone : BOOLEAN]

\* The state keeps its shape; only records are kept when a file is written anew.
ArchiveTypeOK ==
  /\ window \in [DedupKeys -> 0..Window]
  /\ req \in [Requests -> Served]
  /\ file \in [id : Nat, lines : SUBSET Lines, torn : BOOLEAN, hidden : SUBSET Lines,
               tail : Lines \cup {Torn, Nothing}]
  /\ life \in [submits : Nat, drops : Nat, deaths : Nat]
  /\ kept \subseteq Texts

\* A record that was written to its line end, or found, while no other request
\* was at the file, and not behind a line that cannot be decoded, is not lost
\* until it is deleted, whatever is sent, half written and deleted later at
\* the same time and wherever the daemon ends.  Between the two halves of a
\* rewrite it cannot be read; if the daemon ends there, another deletion starts
\* from what it reads there, or a write of the second half fails, all may be
\* lost (archive.rs:91-140, 181-205).
ArchiveKeeps ==
  \A t \in kept :
    \/ Readable(t)
    \/ \E r \in Requests :
         At(r, "rewrite") /\ \E rec \in req[r].keep : rec.text = t

\* Not true: a deletion named by the fields the page was given, the time
\* among them, finds no record, since records are stored under the
\* fingerprint of one without a time (archive.rs:48, 70-71, 112).
DropsWhatItNames ==
  [][\A r \in Requests :
       At(r, "idle") /\ life'.drops > life.drops /\ req[r]' # req[r] /\ req[r]'.rec # Nothing
       /\ req[r]'.rec \in ReadRecords
       => req[r]'.pc = "cut"]_archiveVars
=============================================================================
