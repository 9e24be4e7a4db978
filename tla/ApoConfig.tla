----------------------------- MODULE ApoConfig -----------------------------
(***************************************************************************)
(* core/ApoConfig: Equalizer APO's config.txt, which belongs to several    *)
(* programs, and the one line in it that is this program's.                *)
(*                                                                         *)
(* A file is the pieces its text falls into at the line ends; a text that  *)
(* ends in one has an empty last piece.  setEngaged reads, changes and     *)
(* writes, and another editor may write in between.                        *)
(***************************************************************************)
EXTENDS Integers, Sequences, SequencesExt, Lists

CONSTANTS
  OwnFile,      \* dreamdsp.txt
  OtherTexts,   \* what another editor may leave in config.txt
  kAttempts,    \* of writeText
  MaxWrites     \* how often the file is written in one behaviour

VARIABLES
  configTxt,    \* config.txt
  engaged,      \* m_engaged
  reading,      \* the lines setEngaged has read and not yet written
  wanted,       \* what it was called with
  attempts,     \* of writeText
  meanwhile,    \* another editor has written since the lines were read
  writes

configVars == <<configTxt, engaged, reading, wanted, attempts, meanwhile, writes>>

Line(cmd, file) == [cmd |-> cmd, file |-> file]
Blank == Line("", "")
Idle == <<Line("idle", "")>>

\* A line is a command and a file it may name.
ASSUME TextsAssumption ==
  \A text \in OtherTexts :
    text \in Seq(ToSet(text)) /\ \A l \in ToSet(text) : l = Line(l.cmd, l.file)

\* Mutant of IsIncludeOf: any file that is included.
IsIncludeOfAny(line, file) == line.cmd = "Include"

IsIncludeOf(line, file) == line.cmd = "Include" /\ line.file = file

\* split() leaves an empty last element for a trailing newline; one is dropped.
ReadLines(text) == IF text # <<>> /\ Last(text) = Blank THEN Front(text) ELSE text
\* Every line is ended, unless there is none.
WriteLines(lines) == IF lines = <<>> THEN <<Blank>> ELSE Append(lines, Blank)

HasInclude(lines, file) == \E i \in DOMAIN lines : IsIncludeOf(lines[i], file)

\* Appended, after the blank lines at the end have gone.
WithInclude(lines, file) ==
  IF HasInclude(lines, file) THEN lines
  ELSE Append(SubSeq(lines, 1, SelectLastInSeq(lines, LAMBDA l : l # Blank)),
              Line("Include", file))
WithoutInclude(lines, file) == LeavingOut(lines, {l \in ToSet(lines) : IsIncludeOf(l, file)})

----------------------------------------------------------------------------

ConfigInit ==
  /\ configTxt \in OtherTexts /\ engaged = HasInclude(ReadLines(configTxt), OwnFile)
  /\ reading = Idle /\ wanted = FALSE /\ attempts = 0 /\ meanwhile = FALSE /\ writes = 0

\* setEngaged, up to the lines that are to be written.
SetEngaged(want) ==
  /\ reading = Idle /\ engaged # want
  /\ LET lines == ReadLines(configTxt) IN
     reading' = IF want THEN WithInclude(lines, OwnFile) ELSE WithoutInclude(lines, OwnFile)
  /\ wanted' = want /\ attempts' = 0 /\ meanwhile' = FALSE
  /\ UNCHANGED <<configTxt, engaged, writes>>

\* writeText: QSaveFile replaces the file whole, or a sharing violation keeps it
\* from doing so and it is tried again.
WriteText ==
  /\ reading # Idle /\ writes < MaxWrites
  /\ configTxt' = WriteLines(reading) /\ engaged' = wanted /\ reading' = Idle
  /\ writes' = writes + 1
  /\ UNCHANGED <<wanted, attempts, meanwhile>>

WriteFails ==
  /\ reading # Idle /\ attempts < kAttempts
  /\ attempts' = attempts + 1
  /\ reading' = IF attempts' = kAttempts THEN Idle ELSE reading
  /\ UNCHANGED <<configTxt, engaged, wanted, meanwhile, writes>>

AnotherWrites ==
  /\ writes < MaxWrites /\ writes' = writes + 1
  /\ configTxt' \in OtherTexts \ {configTxt} /\ meanwhile' = TRUE
  /\ UNCHANGED <<engaged, reading, wanted, attempts>>

RefreshEngaged ==
  /\ reading = Idle /\ engaged' = HasInclude(ReadLines(configTxt), OwnFile)
  /\ UNCHANGED <<configTxt, reading, wanted, attempts, meanwhile, writes>>

ConfigNext ==
  \/ \E want \in BOOLEAN : SetEngaged(want)
  \/ WriteText \/ WriteFails \/ AnotherWrites \/ RefreshEngaged

\* The lines of other programs, in their order.
Others(text) == LeavingOut(text, {Blank, Line("Include", OwnFile)})

\* Engaging and disengaging never lose or reorder a line of anybody else's,
\* unless somebody writes the file between the reading and the writing of it; the
\* file does what the interface says, and it does not grow by blank lines.
OthersLinesKept ==
  [][WriteText /\ ~meanwhile =>
       /\ Others(configTxt') = Others(configTxt)
       /\ HasInclude(ReadLines(configTxt'), OwnFile) = engaged'
       /\ Len(configTxt') <= Len(configTxt) + 2]_configVars

=============================================================================
