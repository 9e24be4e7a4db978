------------------------------- MODULE Bands -------------------------------
(***************************************************************************)
(* The parametric equaliser's bands where they are kept: the model of the  *)
(* page (app/EqBandModel), a .peace file (core/PeacePreset), a record of   *)
(* the AutoEQ databases (core/AutoEqDatabase) and the parameter block      *)
(* (eqParamsFromBands and sanitise).                                       *)
(*                                                                         *)
(* A frequency is its place on the logarithmic axis, in half octaves above *)
(* 1 Hz; gain, preamp and q are in thousandths.                            *)
(***************************************************************************)
EXTENDS Integers, Sequences, SequencesExt, Lists

CONSTANTS
  kMaxBands,
  DefaultFrequencies,   \* kDefaultFrequencies
  FixedFrequencies      \* kFixedFrequencies

ASSUME BandsAssumption ==
  /\ kMaxBands \in Nat \ {0}
  /\ DefaultFrequencies \in Seq(Int) /\ Len(DefaultFrequencies) \in 1..kMaxBands
  /\ FixedFrequencies \in Seq(Int)

Octave == 2
Hz10 == 7
Hz20 == 9
kHz20 == 29
kHz24 == 29

Bound(v, lo, hi) == IF v < lo THEN lo ELSE IF v > hi THEN hi ELSE v

Band(freq, gain, q, type, on) ==
  [freq |-> freq, gain |-> gain, q |-> q, type |-> type, on |-> on]
\* PresetBand{}, at a frequency.
NewBand(freq) == Band(freq, 0, 1410, "PK", TRUE)
Defaults == [i \in DOMAIN DefaultFrequencies |-> NewBand(DefaultFrequencies[i])]

----------------------------------------------------------------------------
(* The model. *)

\* The setters' clamps; the type and the switch as they are.
Legal(b) ==
  [b EXCEPT !.freq = Bound(@, 0, kHz24), !.gain = Bound(@, -30000, 30000),
            !.q = Bound(@, 10, 100000)]

\* insertBandAfter's frequency: halfway between its neighbours, an octave above
\* the last or below the first.
Between(bands, row) ==
  IF row = 0 THEN (IF bands[1].freq - Octave < Hz20 THEN Hz20 ELSE bands[1].freq - Octave)
  ELSE IF row = Len(bands)
  THEN (IF bands[row].freq + Octave > kHz20 THEN kHz20 ELSE bands[row].freq + Octave)
  ELSE (bands[row].freq + bands[row + 1].freq) \div 2
Inserted(bands, row) == InsertAt(bands, row + 1, NewBand(Between(bands, row)))

\* Mutant of SetBands: every band is taken.
SetBandsAll(bands, given) == IF given = <<>> THEN bands ELSE given

\* setBands: nothing keeps what is there, more than there is room for is cut.
SetBands(bands, given) ==
  IF given = <<>> THEN bands
  ELSE SubSeq(given, 1, IF Len(given) > kMaxBands THEN kMaxBands ELSE Len(given))

----------------------------------------------------------------------------
(* The block. *)

\* eqParamsFromBands and what sanitise does to it.
Wire(b) ==
  [b EXCEPT !.freq = IF @ < Hz10 THEN Hz10 ELSE @, !.gain = Bound(@, -40000, 40000),
            !.q = Bound(@, 50, 100000)]
EqParams(bands) ==
  [i \in 1..(IF Len(bands) > kMaxBands THEN kMaxBands ELSE Len(bands)) |-> Wire(bands[i])]

----------------------------------------------------------------------------
(* A .peace file: sections that list what is not the default. *)

\* Two decimals.
Decimals(v) == IF v < 0 THEN -(((5 - v) \div 10) * 10) ELSE ((v + 5) \div 10) * 10
Rounded(b) == [b EXCEPT !.gain = Decimals(@), !.q = Decimals(@)]

WriteFile(preamp, bands) ==
  LET rows == DOMAIN bands
      typed == {i \in rows : bands[i].type # "PK"} IN
  [preamp |-> Decimals(preamp),
   frequencies |-> [i \in rows |-> bands[i].freq],
   qualities |-> [i \in rows |-> Decimals(bands[i].q)],
   gains |-> IF \E i \in rows : bands[i].gain # 0
             THEN [i \in rows |-> Decimals(bands[i].gain)] ELSE <<>>,
   filters |-> [i \in typed |-> bands[i].type],
   disabled |-> {i \in rows : ~bands[i].on}]

Entry(section, i, fallback) == IF i \in DOMAIN section THEN section[i] ELSE fallback

\* Mutant of FilterOf: the section is read as [Frequencies] is, up to the first gap.
FilterOfCounted(filters, i) ==
  IF 1..i \subseteq DOMAIN filters THEN filters[i] ELSE "PK"

FilterOf(filters, i) == Entry(filters, i, "PK")

ReadBands(file) ==
  [i \in DOMAIN file.frequencies |->
     Band(file.frequencies[i], Entry(file.gains, i, 0), Entry(file.qualities, i, 1410),
          FilterOf(file.filters, i), i \notin file.disabled)]

----------------------------------------------------------------------------
(* AutoEQ: lines that name a measurer, a target or a device, and the filters of
   that device, parametric or for a fixed-band equaliser. *)

Device(name, measurer, target, source) ==
  [device |-> name, measurer |-> measurer, target |-> target, source |-> source,
   parametric |-> <<>>, fixed |-> <<>>]

Flushed(s) ==
  [s EXCEPT !.have = FALSE,
            !.entries = IF s.have /\ s.current.parametric # <<>>
                        THEN Append(@, s.current) ELSE @]

ReadLine(s, line) ==
  IF line.tag = "M" THEN [Flushed(s) EXCEPT !.measurer = line.name]
  ELSE IF line.tag = "W" THEN [Flushed(s) EXCEPT !.target = line.name]
  ELSE IF line.tag = "D"
  THEN [Flushed(s) EXCEPT !.have = TRUE, !.current = Device(line.name, s.measurer, s.target, s.source)]
  ELSE IF line.tag # "A" \/ ~s.have THEN s
  ELSE IF \E f \in ToSet(line.filters) : f.tag = "F" THEN [s EXCEPT !.current.fixed = <<line>>]
  ELSE IF s.current.parametric = <<>> THEN [s EXCEPT !.current.parametric = <<line>>]
  ELSE s

\* loadFile
LoadFile(source, lines) ==
  LET read[i \in 0..Len(lines)] ==
        IF i = 0
        THEN [entries |-> <<>>, measurer |-> "", target |-> "", source |-> source, have |-> FALSE,
              current |-> Device("", "", "", source)]
        ELSE ReadLine(read[i - 1], lines[i])
  IN Flushed(read[Len(lines)]).entries

\* load: the first directory that has entries of a database is the one.
LoadDatabase(files) ==
  LET found[i \in 0..Len(files)] ==
        IF i = 0 THEN <<>>
        ELSE IF \E j \in DOMAIN found[i - 1] : found[i - 1][j].source = files[i].source THEN found[i - 1]
        ELSE found[i - 1] \o LoadFile(files[i].source, files[i].lines)
  IN found[Len(files)]

ShelfOf == [P |-> "PK", L |-> "LS", H |-> "HS", M |-> "LSC", I |-> "HSC"]

\* A filter of a record: a missing q is 0.707, a corrupt number is brought within
\* reason.
Parametric(f) ==
  Band(Bound(f.freq, 0, kHz24), Bound(f.gain, -40000, 40000),
       IF f.q = -1 THEN 707 ELSE Bound(f.q, 50, 100000), ShelfOf[f.tag], TRUE)

\* toPreset: the fixed bands take their frequencies from the table, as far as it
\* goes; a tag nobody knows is passed over.
ToBands(line) ==
  LET filters == ToSet(line.filters)
      fixed == LeavingOut(line.filters, {f \in filters : f.tag # "F"})
      known == LeavingOut(line.filters, {f \in filters : f.tag \notin DOMAIN ShelfOf}) IN
  IF fixed # <<>>
  THEN [i \in 1..(IF Len(fixed) > Len(FixedFrequencies) THEN Len(FixedFrequencies) ELSE Len(fixed)) |->
          Band(FixedFrequencies[i], fixed[i].gain, 1410, "PK", TRUE)]
  ELSE [i \in DOMAIN known |-> Parametric(known[i])]

=============================================================================
