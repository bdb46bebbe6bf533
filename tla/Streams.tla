------------------------------- MODULE Streams -------------------------------
(***************************************************************************)
(* The streams of Library.c: the table s_streams, opened by Open or by the *)
(* first Get or Put of a number, the builtins that read and write through  *)
(* it, and those that take a file name.  Below it is stdio: what is put    *)
(* into a FILE waits in its buffer until the buffer is written out or the  *)
(* FILE is closed.                                                         *)
(*                                                                         *)
(* The program that calls the builtins uses a file through one number at a *)
(* time (Free below); file names are whole, a text is a sequence of chars. *)
(***************************************************************************)
EXTENDS Naturals, Sequences, SequencesExt

CONSTANTS
  FILE_LIMIT,  \* entries of s_streams: 40
  Numbers,     \* s.FileNo of the calls
  Names,       \* file names
  Default,     \* entry of s_streams -> the name REFAL<n>.DAT
  Exprs,       \* what is put: sequences of [tag, info]
  Space, NL,   \* the chars ' ' and '\n'
  Input,       \* what stdin will deliver
  BufferSize,  \* of the buffer of LoadFile: 4096
  MaxText,     \* bound: chars of a file
  NoFile, NULL,
  End,         \* the number 0 as a symbol of the result
  Left, Right, True, False,
  MayFail      \* whether the disk may become full

VARIABLES
  disk,        \* name -> its contents as they are on the disk, or NoFile
  s_streams,   \* entry -> NULL or the FILE [mode, name, buf, rest]
  stdin,       \* what stdin will still deliver
  console,     \* what the last builtin wrote to stdout and to stderr
  outcome,     \* "running", "exit" or "error" (EXIT_CODE_RECOGNITION_IMPOSSIBLE)
  result       \* what the last builtin returned

svars == <<disk, s_streams, stdin, console, outcome, result>>

Slots == 0 .. FILE_LIMIT - 1
Mode  == {"r", "w", "a"}
Tag   == {"char", "function", "number", "open_bracket", "close_bracket"}
Info  == UNION {{expr[k].info : k \in DOMAIN expr} : expr \in Exprs}
Char  == {NL, Space, Left, Right} \cup Info \cup {Input[k] : k \in DOMAIN Input}
File  == [mode : Mode, name : Names, buf : Seq(Char), rest : Seq(Char)]
Text  == [lines : Seq(Seq(Char)), last : Seq(Char)]

ASSUME TableAssumption == FILE_LIMIT \in Nat \ {0} /\ Numbers \subseteq Nat /\ Default \in [Slots -> Names]

ASSUME TextAssumption  == Input \in Seq(Char) /\ Exprs \subseteq Seq([tag : Tag, info : Info])

\* NULL is no FILE and NoFile no contents, nor are they what a FILE and contents are mapped to.
ASSUME MarkAssumption ==
  /\ NULL \notin File /\ NULL \notin [mode : Mode, name : Names, rest : Text]
  /\ NoFile \notin Seq(Char) /\ NoFile \notin Text

Slot(no) == no % FILE_LIMIT

\* A FILE just opened: what it has not delivered yet and what it has not written out yet.
FileOn(d, mode, f) ==
  [mode |-> mode, name |-> f, buf |-> <<>>, rest |-> IF mode = "r" THEN d[f] ELSE <<>>]

-----------------------------------------------------------------------------
(* stdio: fopen and fclose.                                                  *)

\* The disk after fopen, which fails only for a missing file in mode r.
Fopens(d, mode, f) == mode = "r" => d[f] # NoFile
Fopen(d, mode, f) == IF mode = "w" \/ d[f] = NoFile THEN [d EXCEPT ![f] = <<>>] ELSE d

Pending(n) == s_streams[n] # NULL /\ s_streams[n].buf # <<>>

\* The disk after fclose of entry n, or after nothing if it is NULL.
Fclose(d, n) ==
  IF Pending(n) THEN [d EXCEPT ![s_streams[n].name] = @ \o s_streams[n].buf] ELSE d

\* Entries whose FILE is on f.
Users(f) == {n \in Slots : s_streams[n] # NULL /\ s_streams[n].name = f}

\* The program has f open under no number but n.
Free(f, n) == Users(f) \subseteq {n}

Running == outcome = "running"

Silent == [stdout |-> <<>>, stderr |-> <<>>]

\* A builtin returns.
ReturnsAfter(text, value) ==
  Running /\ result' = value /\ console' = text /\ UNCHANGED outcome

Returns(value) == ReturnsAfter(Silent, value)

\* What may remain of file f when the program ends: a full disk takes some of what is pending.
Remains(d, streams, f) ==
  LET late == {n \in Slots : streams[n] # NULL /\ streams[n].name = f /\ streams[n].buf # <<>>}
  IN  IF late = {}
      THEN {d[f]}
      ELSE {d[f] \o p : p \in UNION {IF MayFail THEN Prefixes(streams[n].buf) ELSE {streams[n].buf} : n \in late}}

\* r05_exit: the exit of the process closes every FILE.
Exit(d, streams, why) ==
  /\ Running /\ outcome' = why
  /\ disk' \in [Names -> UNION {Remains(d, streams, f) : f \in Names}]
  /\ \A f \in Names : disk'[f] \in Remains(d, streams, f)
  /\ s_streams' = [n \in Slots |-> NULL]
  /\ console' = Silent /\ result' = <<>>
  /\ UNCHANGED stdin

\* A call with arguments the builtin does not take.
Reject == Exit(disk, s_streams, "error")

Finish == Exit(disk, s_streams, "exit")

\* A buffer that is full is written out.
Flush ==
  /\ Running
  /\ \E n \in Slots :
       /\ Pending(n)
       /\ disk' = Fclose(disk, n)
       /\ s_streams' = [s_streams EXCEPT ![n].buf = <<>>]
  /\ UNCHANGED <<stdin, console, outcome, result>>

-----------------------------------------------------------------------------
(* Open and Close.                                                           *)

\* ensure_close_stream: fclose cannot write out what is pending.
FailToClose(n) == MayFail /\ Pending(n) /\ Exit(disk, s_streams, "error")

\* Mutant of Open: the file is opened before the old stream is closed.
OpenFirst(no, mode, f) ==
  LET n    == Slot(no)
      made == Fopen(disk, mode, f)
  IN  /\ Free(f, n)
      /\ Fopens(disk, mode, f)
      /\ disk' = Fclose(made, n)
      /\ s_streams' = [s_streams EXCEPT ![n] = FileOn(made, mode, f)]
      /\ Returns(<<>>)
      /\ UNCHANGED stdin

\* The entry is closed before the file is opened: it may be the same file.
Open(no, mode, f) ==
  LET n      == Slot(no)
      closed == Fclose(disk, n)
  IN  /\ Free(f, n)
      /\ \/ FailToClose(n)
         \/ /\ Fopens(closed, mode, f)
            /\ disk' = Fopen(closed, mode, f)
            /\ s_streams' = [s_streams EXCEPT ![n] = FileOn(closed, mode, f)]
            /\ Returns(<<>>)
            /\ UNCHANGED stdin
         \/ /\ ~Fopens(closed, mode, f)
            /\ Exit(closed, [s_streams EXCEPT ![n] = NULL], "error")

\* Without a name, Open takes the name REFAL<n>.DAT.
OpenNumbered(no, mode) == Open(no, mode, Default[Slot(no)])

Close(no) ==
  LET n == Slot(no)
  IN  \/ FailToClose(n)
      \/ /\ disk' = Fclose(disk, n)
         /\ s_streams' = [s_streams EXCEPT ![n] = NULL]
         /\ Returns(<<>>)
         /\ UNCHANGED stdin

-----------------------------------------------------------------------------
(* Reading.                                                                  *)

\* The chars before the first newline; read_from_stream stops after it or at the end.
FirstNL(text) == SelectInSeq(text, LAMBDA c : c = NL)
ReadFromStream(text) ==
  IF FirstNL(text) = 0 THEN Append(text, End) ELSE SubSeq(text, 1, FirstNL(text) - 1)
AfterRead(text) ==
  IF FirstNL(text) = 0 THEN <<>> ELSE SubSeq(text, FirstNL(text) + 1, Len(text))

\* Card, and Get for number 0.
ReadStdin ==
  /\ Returns(ReadFromStream(stdin)) /\ stdin' = AfterRead(stdin)
  /\ UNCHANGED <<disk, s_streams>>

\* open_numbered: the FILE of the entry, opened now if there is none.
OpenNow(n, mode) == FileOn(Fopen(disk, mode, Default[n]), mode, Default[n])
OpenedFor(n, mode) == IF s_streams[n] # NULL THEN s_streams[n] ELSE OpenNow(n, mode)

\* open_numbered fails for Get.
FailToOpen(n) ==
  /\ s_streams[n] = NULL /\ ~Fopens(disk, "r", Default[n])
  /\ Exit(disk, s_streams, "error")

\* A FILE opened for writing delivers nothing: it is as if at its end.
Get(no) ==
  LET n == Slot(no)
      x == OpenedFor(n, "r")
  IN  \/ n = 0 /\ ReadStdin
      \/ /\ n # 0
         /\ s_streams[n] = NULL => Free(Default[n], n) /\ Fopens(disk, "r", Default[n])
         /\ Returns(ReadFromStream(x.rest))
         /\ s_streams' = [s_streams EXCEPT ![n] = [x EXCEPT !.rest = AfterRead(@)]]
         /\ UNCHANGED <<disk, stdin>>
      \/ n # 0 /\ FailToOpen(n)

-----------------------------------------------------------------------------
(* Writing.                                                                  *)

\* The chars output_func prints for one symbol or bracket.
Image(x) ==
  CASE x.tag = "char" -> <<x.info>>
    [] x.tag \in {"function", "number"} -> <<x.info, Space>>
    [] x.tag = "open_bracket"  -> <<Left>>
    [] x.tag = "close_bracket" -> <<Right>>

Printed(expr) == FlattenSeq([k \in 1 .. Len(expr) |-> Image(expr[k])])

Size(n) == (IF disk[s_streams[n].name] = NoFile THEN 0 ELSE Len(disk[s_streams[n].name])) + Len(s_streams[n].buf)

\* The text goes into the FILE; none of it goes into one opened for reading.
PutInto(n, text, value) ==
  \/ /\ s_streams[n] = NULL /\ Free(Default[n], n) /\ Len(text) <= MaxText
     /\ disk' = Fopen(disk, "w", Default[n])
     /\ s_streams' = [s_streams EXCEPT ![n] = [OpenNow(n, "w") EXCEPT !.buf = text]]
     /\ Returns(value)
     /\ UNCHANGED stdin
  \/ /\ s_streams[n] # NULL /\ (s_streams[n].mode # "r" \/ text = <<>>)
     /\ Size(n) + Len(text) <= MaxText
     /\ s_streams' = [s_streams EXCEPT ![n].buf = @ \o text]
     /\ Returns(value)
     /\ UNCHANGED <<disk, stdin>>
  \/ /\ s_streams[n] # NULL /\ text # <<>>
     /\ s_streams[n].mode = "r" \/ (MayFail /\ Size(n) + Len(text) <= MaxText)
     /\ Exit(disk, [s_streams EXCEPT ![n].buf = IF s_streams[n].mode = "r" THEN <<>> ELSE @ \o text],
             "error")

\* output_func: every function but Write adds a newline; Print and Put return the expression.
Written(function, expr) == Printed(expr) \o (IF function = "Write" THEN <<>> ELSE <<NL>>)
Kept(function, expr) == IF function \in {"Print", "Put"} THEN expr ELSE <<>>

PutFunction == {"Put", "Putout", "Write"}

Put(function, no, expr) ==
  \/ /\ Slot(no) = 0
     /\ ReturnsAfter([Silent EXCEPT !.stderr = Written(function, expr)], Kept(function, expr))
     /\ UNCHANGED <<disk, s_streams, stdin>>
  \/ Slot(no) # 0 /\ PutInto(Slot(no), Written(function, expr), Kept(function, expr))

PutOut(function, expr) ==
  /\ ReturnsAfter([Silent EXCEPT !.stdout = Written(function, expr)], Kept(function, expr))
  /\ UNCHANGED <<disk, s_streams, stdin>>

-----------------------------------------------------------------------------
(* Files by name.  These builtins do not use the table.                      *)

\* One turn of the loop of LoadFile: a line is open, buffer holds its last chars.
LoadChar(st, c) ==
  LET open == IF st.open THEN st ELSE [open |-> TRUE, buffer |-> <<>>, made |-> Append(st.made, Left)]
      more == Append(open.buffer, c)
  IN  IF c = NL
      THEN [open |-> FALSE, buffer |-> <<>>, made |-> Append(open.made \o open.buffer, Right)]
      ELSE IF Len(more) = BufferSize
           THEN [open |-> TRUE, buffer |-> <<>>, made |-> open.made \o more]
           ELSE [open EXCEPT !.buffer = more]

Loaded(text) ==
  LET after[k \in 0 .. Len(text)] ==
        IF k = 0
        THEN [open |-> FALSE, buffer |-> <<>>, made |-> <<>>]
        ELSE LoadChar(after[k - 1], text[k])
      st == after[Len(text)]
  IN  IF st.open THEN Append(st.made \o st.buffer, Right) ELSE st.made

LoadFile(f) ==
  /\ Users(f) = {}
  /\ \/ /\ disk[f] # NoFile /\ Returns(Loaded(disk[f]))
        /\ UNCHANGED <<disk, s_streams, stdin>>
     \/ disk[f] = NoFile /\ Exit(disk, s_streams, "error")

Truth(b) == IF b THEN True ELSE False

\* fopen for reading succeeds.
ExistFile(f) ==
  /\ Returns(<<Truth(Fopens(disk, "r", f))>>)
  /\ UNCHANGED <<disk, s_streams, stdin>>

RemoveFile(f) ==
  /\ Users(f) = {}
  /\ Returns(<<Truth(disk[f] # NoFile)>>)
  /\ disk' = [disk EXCEPT ![f] = NoFile]
  /\ UNCHANGED <<s_streams, stdin>>

-----------------------------------------------------------------------------
Init ==
  /\ disk = [f \in Names |-> NoFile]
  /\ s_streams = [n \in Slots |-> NULL]
  /\ stdin = Input /\ console = Silent
  /\ outcome = "running" /\ result = <<>>

Next ==
  \/ \E no \in Numbers, mode \in Mode :
       OpenNumbered(no, mode) \/ \E f \in Names \ {Default[Slot(no)]} : Open(no, mode, f)
  \/ \E no \in Numbers : Close(no) \/ Get(no)
  \/ \E no \in Numbers, expr \in Exprs, function \in PutFunction : Put(function, no, expr)
  \/ \E expr \in Exprs, function \in {"Print", "Prout"} : PutOut(function, expr)
  \/ \E f \in Names : LoadFile(f) \/ ExistFile(f) \/ RemoveFile(f)
  \/ Flush
  \/ Reject \/ Finish

Spec == Init /\ [][Next]_svars

-----------------------------------------------------------------------------
(* Refinement.                                                               *)

\* A text as lines and what follows the last of them.
NextChar(text, c) ==
  IF c = NL
  THEN [lines |-> Append(text.lines, text.last), last |-> <<>>]
  ELSE [text EXCEPT !.last = Append(@, c)]

Lines(text) ==
  LET upto[k \in 0 .. Len(text)] ==
        IF k = 0 THEN [lines |-> <<>>, last |-> <<>>] ELSE NextChar(upto[k - 1], text[k])
  IN  upto[Len(text)]

\* What is pending counts as written.
Whole(f) ==
  IF disk[f] = NoFile
  THEN NoFile
  ELSE Lines(disk[f] \o (IF \E n \in Users(f) : Pending(n)
                         THEN s_streams[CHOOSE n \in Users(f) : Pending(n)].buf
                         ELSE <<>>))

Files == [f \in Names |-> Whole(f)]

\* A FILE without the buffers of stdio.
View(x) == IF x = NULL THEN NULL ELSE [mode |-> x.mode, name |-> x.name, rest |-> Lines(x.rest)]

Opened == [n \in Slots |-> View(s_streams[n])]

Said == [stdout |-> Lines(console.stdout), stderr |-> Lines(console.stderr)]

ByLine == INSTANCE LineFiles WITH
  Closed <- NULL, file <- Files, open <- Opened, input <- Lines(stdin), console <- Said

(* To a program that uses a file through one number at a time the table, the buffers and
   the loops over chars are files of lines: what was put is read back line by line,
   whatever was still pending, closing a number or ending the program loses nothing
   unless the disk is full, and then only of the files still open for writing. *)
ImplementsLineFiles ==
  /\ ByLine!Init(Lines(Input))
  /\ [][\/ ByLine!NextOther
        \/ \E expr \in Exprs, function \in PutFunction :
             ByLine!NextPut(Lines(Written(function, expr)), Kept(function, expr))
        \/ \E expr \in Exprs, function \in {"Print", "Prout"} :
             ByLine!PutConsole("stdout", Lines(Written(function, expr)), Kept(function, expr))]_(ByLine!avars)
=============================================================================
