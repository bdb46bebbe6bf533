------------------------------ MODULE LineFiles ------------------------------
(***************************************************************************)
(* What the stream builtins of Library.c promise to a program that uses a  *)
(* file through one number at a time: files are made of lines, what is put *)
(* into a file is there at once, a number reads its file line by line from *)
(* the start, and number 0 is the standard input and the standard error.   *)
(***************************************************************************)
EXTENDS Sequences, SequencesExt

CONSTANTS
  Slots,       \* file numbers, 0 and more
  Names,       \* file names
  Default,     \* number -> the name REFAL<n>.DAT
  NoFile, Closed,         \* no such file, no open file
  End,                    \* the number 0 that Get adds
  Left, Right,            \* the brackets of the expression that LoadFile makes
  True, False,            \* the functions that ExistFile and RemoveFile return
  MayFail      \* the disk may become full

VARIABLES
  file,        \* name -> its text or NoFile
  open,        \* number -> Closed or [mode, name, rest]
  input,       \* the text of stdin not read yet
  console,     \* the texts the last call put into stdout and stderr
  outcome,     \* "running" or how the program ended
  result       \* what the last call returned

avars == <<file, open, input, console, outcome, result>>

\* A text: complete lines and what follows the last of them.
Empty == [lines |-> <<>>, last |-> <<>>]

\* The text c with the text d after it.
Joined(c, d) ==
  IF d.lines = <<>>
  THEN [c EXCEPT !.last = @ \o d.last]
  ELSE [lines |-> c.lines \o <<c.last \o Head(d.lines)>> \o Tail(d.lines), last |-> d.last]

Silent == [stdout |-> Empty, stderr |-> Empty]

Says(text, value) == outcome = "running" /\ result' = value /\ console' = text /\ UNCHANGED outcome

Returns(value) == Says(Silent, value)

\* No file is there, no number is open, and stdin delivers text.
Init(text) ==
  /\ file = [f \in Names |-> NoFile] /\ open = [n \in Slots |-> Closed]
  /\ input = text /\ console = Silent
  /\ outcome = "running" /\ result = <<>>

Writes(n) == open[n] # Closed /\ open[n].mode # "r"

\* How a text is read: the next line, or what is left and the number 0.
NextLine(text) == IF text.lines # <<>> THEN Head(text.lines) ELSE Append(text.last, End)
AfterLine(text) == IF text.lines # <<>> THEN [text EXCEPT !.lines = Tail(@)] ELSE Empty

\* The program ends; a file that is still written may lose text when the disk is full.
Stop ==
  /\ outcome = "running" /\ outcome' \in {"exit", "error"}
  /\ open' = [n \in Slots |-> Closed]
  /\ IF MayFail
     THEN /\ DOMAIN file' = Names
          /\ \A f \in Names : file'[f] # file[f] => \E n \in Slots : Writes(n) /\ open[n].name = f
     ELSE UNCHANGED file
  /\ console' = Silent /\ result' = <<>>
  /\ UNCHANGED input

\* A program that cannot create or read a file ends.
OpenAs(n, mode, f) ==
  /\ mode = "r" => file[f] # NoFile
  /\ open' = [open EXCEPT ![n] = [mode |-> mode, name |-> f, rest |-> IF mode = "r" THEN file[f] ELSE Empty]]
  /\ file' = (IF mode = "w" \/ file[f] = NoFile THEN [file EXCEPT ![f] = Empty] ELSE file)

Open(n, mode, f) ==
  /\ Returns(<<>>)
  /\ OpenAs(n, mode, f)
  /\ UNCHANGED input

Close(n) ==
  /\ Returns(<<>>)
  /\ open' = [open EXCEPT ![n] = Closed]
  /\ UNCHANGED <<file, input>>

GetInput ==
  /\ Returns(NextLine(input)) /\ input' = AfterLine(input)
  /\ UNCHANGED <<file, open>>

\* A number that is not open is opened; one that is being written is at its end.
GetFirst(n) ==
  /\ n # 0 /\ open[n] = Closed /\ file[Default[n]] # NoFile
  /\ Returns(NextLine(file[Default[n]]))
  /\ open' = [open EXCEPT ![n] = [mode |-> "r", name |-> Default[n], rest |-> AfterLine(file[Default[n]])]]
  /\ UNCHANGED <<file, input>>

GetNext(n) ==
  /\ n # 0 /\ open[n] # Closed
  /\ Returns(NextLine(open[n].rest))
  /\ open' = [open EXCEPT ![n].rest = AfterLine(@)]
  /\ UNCHANGED <<file, input>>

PutConsole(channel, text, value) ==
  /\ Says([Silent EXCEPT ![channel] = text], value)
  /\ UNCHANGED <<file, open, input>>

PutFirst(n, text, value) ==
  /\ n # 0 /\ open[n] = Closed
  /\ Returns(value)
  /\ file' = [file EXCEPT ![Default[n]] = text]
  /\ open' = [open EXCEPT ![n] = [mode |-> "w", name |-> Default[n], rest |-> Empty]]
  /\ UNCHANGED input

PutNext(n, text, value) ==
  /\ n # 0 /\ open[n] # Closed /\ (Writes(n) \/ text = Empty)
  /\ Returns(value)
  /\ file' = [file EXCEPT ![open[n].name] = Joined(@, text)]
  /\ UNCHANGED <<open, input>>

\* The lines of a file; one that does not end in a newline is a line too.
LoadFile(f) ==
  /\ file[f] # NoFile
  /\ LET all == file[f].lines \o (IF file[f].last = <<>> THEN <<>> ELSE <<file[f].last>>)
     IN  Returns(FlattenSeq([k \in 1 .. Len(all) |-> <<Left>> \o all[k] \o <<Right>>]))
  /\ UNCHANGED <<file, open, input>>

Truth(b) == IF b THEN True ELSE False

ExistFile(f) ==
  /\ Returns(<<Truth(file[f] # NoFile)>>)
  /\ UNCHANGED <<file, open, input>>

RemoveFile(f) ==
  /\ Returns(<<Truth(file[f] # NoFile)>>)
  /\ file' = [file EXCEPT ![f] = NoFile]
  /\ UNCHANGED <<open, input>>

NextPut(text, value) ==
  PutConsole("stderr", text, value) \/ \E n \in Slots : PutFirst(n, text, value) \/ PutNext(n, text, value)

NextOther ==
  \/ Stop \/ GetInput
  \/ \E n \in Slots : Close(n) \/ GetFirst(n) \/ GetNext(n)
  \/ \E n \in Slots, mode \in {"r", "w", "a"}, f \in Names : Open(n, mode, f)
  \/ \E f \in Names : LoadFile(f) \/ ExistFile(f) \/ RemoveFile(f)
=============================================================================
