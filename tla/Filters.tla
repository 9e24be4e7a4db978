------------------------------ MODULE Filters ------------------------------
(***************************************************************************)
(* dsp/Equalizer: the parametric equaliser of one channel.  setParams      *)
(* designs again only the bands that differ from those installed, keeps    *)
(* the sections to run in a list of its own, and leaves a section its      *)
(* delay elements as long as that makes no click.                          *)
(*                                                                         *)
(* A designed section is what decides its coefficients: its shape, corner, *)
(* gain and width.                                                         *)
(***************************************************************************)
EXTENDS Integers, Sequences, SequencesExt, FiniteSetsExt

CONSTANTS
  EqBands,       \* band values a block may hold, all with a positive frequency
  kMaxEqBands,
  SampleRates    \* twice the Nyquist frequency

\* What sanitise leaves of a block: frequencies of 10 Hz and more.
ASSUME BandsAssumption == kMaxEqBands \in Nat /\ \A b \in EqBands : b.freq \in Nat \ {0}

VARIABLES
  eqRate,      \* m_sampleRate
  installed,   \* m_applied: the band slots, Unused past bandCount
  eqCount,     \* and bandCount
  sections,    \* m_sectionCount
  coeff,       \* m_coeff, two for each band
  active,      \* m_active: the sections to run, <<band, section>>
  delays       \* m_state: what each section's delay elements hold

filterVars == <<eqRate, installed, eqCount, sections, coeff, active, delays>>

Slots == 1..kMaxEqBands
Section == Slots \X {1, 2}

\* A slot the block does not use is all zero bytes.
Unused == [type |-> "PK", freq |-> 0, gain |-> 0, q |-> 0, enabled |-> FALSE]
Wire == [shape |-> "wire"]
Clear == [by |-> "nobody", missed |-> FALSE]

FiltersInit ==
  /\ eqRate \in SampleRates
  /\ installed = [i \in Slots |-> Unused] /\ eqCount = 0
  /\ sections = [i \in Slots |-> 0] /\ coeff = [s \in Section |-> Wire]
  /\ active = <<>> /\ delays = [s \in Section |-> Clear]

----------------------------------------------------------------------------
(* designFilter                                                             *)

\* kKinds
HasGain(kind) == kind \in {"PK", "LS", "HS", "LSC", "HSC", "LSCQ", "HSCQ", "LSQ", "HSQ"}
HasQ(kind) == kind \notin {"LS", "HS", "BWLP", "BWHP", "LRLP", "LRHP"}

ShapeOf(kind) ==
  CASE kind = "PK" -> "peak"
    [] kind \in {"LS", "LSC", "LSCQ", "LSQ"} -> "lowShelf"
    [] kind \in {"HS", "HSC", "HSCQ", "HSQ"} -> "highShelf"
    [] kind \in {"LPQ", "BWLP", "LRLP"} -> "lowPass"
    [] kind \in {"HPQ", "BWHP", "LRHP"} -> "highPass"
    [] kind = "BP" -> "bandPass"
    [] kind = "NO" -> "notch"
    [] kind = "AP" -> "allPass"

IsShelf(shape) == shape \in {"lowShelf", "highShelf"}
IsCornerShelf(kind) == kind \in {"LSQ", "HSQ"}
FourthOrder == {"BWLP", "BWHP", "LRLP", "LRHP"}

\* Above Nyquist the corner is brought below it.
Corner(freq, rate) == IF 2 * freq >= rate THEN (rate - 1) \div 2 ELSE freq

\* The pole Qs of the two sections.
Cascade(kind) == IF kind \in {"BWLP", "BWHP"} THEN <<"butterworth 1", "butterworth 2">>
                 ELSE <<"1/sqrt 2", "1/sqrt 2">>

\* A shelf without a Q has APO's slope, a notch without one 30, the others 1/sqrt 2.
Width(b) ==
  IF IsShelf(ShapeOf(b.type)) /\ (~HasQ(b.type) \/ b.q <= 0) THEN "slope 0.9"
  ELSE IF b.q > 0 THEN b.q
  ELSE IF b.type = "NO" THEN 30 ELSE "1/sqrt 2"

Designed(b, rate) ==
  IF b.freq <= 0 THEN <<>>
  ELSE LET section(width) ==
             [shape |-> ShapeOf(b.type), freq |-> Corner(b.freq, rate), rate |-> rate,
              gain |-> IF HasGain(b.type) THEN b.gain ELSE 0, width |-> width,
              \* The shelves whose frequency is their corner are designed at another.
              moved |-> IsCornerShelf(b.type)] IN
       IF b.type \in FourthOrder THEN [i \in 1..2 |-> section(Cascade(b.type)[i])]
       ELSE <<section(Width(b))>>

----------------------------------------------------------------------------

\* rebuildActive()
Rebuilt(bands, count, sectionCounts) ==
  FlattenSeq([i \in 1..count |->
    IF bands[i].enabled THEN [s \in 1..sectionCounts[i] |-> <<i, s>>] ELSE <<>>])

\* Mutant of PrepareFilters: the bands are left installed.
PrepareFiltersOnly(rate) ==
  /\ eqRate' = rate
  /\ delays' = [s \in Section |-> Clear]
  /\ UNCHANGED <<installed, eqCount, sections, coeff, active>>

\* prepare(): what was installed is forgotten, so that setParams designs every band
\* for the new rate.
PrepareFilters(rate) ==
  /\ eqRate' = rate
  /\ installed' = [i \in Slots |-> Unused] /\ eqCount' = 0
  /\ sections' = [i \in Slots |-> 0] /\ coeff' = [s \in Section |-> Wire]
  /\ active' = <<>> /\ delays' = [s \in Section |-> Clear]

\* A new type is another filter, and a band that comes back has delay elements from
\* before it went.
Clears(old, new) == new.type # old.type \/ (new.enabled /\ ~old.enabled)

\* setParams.  A block's slots past its count are Unused, as sanitise leaves them.
SetFilters(bands) ==
  LET new == [i \in Slots |-> IF i \in DOMAIN bands THEN bands[i] ELSE Unused]
      count == Len(bands)
      changed == {i \in Slots : i <= (IF eqCount > count THEN eqCount ELSE count)
                                /\ new[i] # installed[i]}
      design(i) == Designed(new[i], eqRate) IN
  /\ installed' = [i \in Slots |-> IF i \in changed THEN new[i] ELSE installed[i]]
  /\ eqCount' = count
  /\ sections' = [i \in Slots |-> IF i \notin changed THEN sections[i]
                                  ELSE IF i <= count THEN Len(design(i)) ELSE 0]
  /\ coeff' = [s \in Section |->
                 IF s[1] \in changed /\ s[1] <= count
                 THEN IF s[2] \in DOMAIN design(s[1]) THEN design(s[1])[s[2]] ELSE Wire
                 ELSE coeff[s]]
  /\ delays' = [s \in Section |-> IF s[1] \in changed /\ Clears(installed[s[1]], new[s[1]])
                                  THEN Clear ELSE delays[s]]
  /\ active' = IF changed # {} \/ count # eqCount
               THEN Rebuilt(installed', count, sections') ELSE active
  /\ UNCHANGED eqRate

\* process(): the sections of the list run, the others stand still.
RunFilters ==
  /\ delays' = [s \in Section |->
                  IF s \in ToSet(active) THEN [by |-> installed[s[1]].type, missed |-> delays[s].missed]
                  ELSE IF delays[s] = Clear THEN Clear ELSE [delays[s] EXCEPT !.missed = TRUE]]
  /\ UNCHANGED <<eqRate, installed, eqCount, sections, coeff, active>>

\* A sample that is not a number clears the channel.
RunFiltersBad ==
  /\ delays' = [s \in Section |-> Clear]
  /\ UNCHANGED <<eqRate, installed, eqCount, sections, coeff, active>>

FiltersNext ==
  \/ \E r \in SampleRates : PrepareFilters(r)
  \/ \E bands \in BoundedSeq(EqBands, kMaxEqBands) : SetFilters(bands)
  \/ RunFilters
  \/ RunFiltersBad

----------------------------------------------------------------------------

\* The list and the coefficients, put together change by change, are what the bands
\* installed last come to when all of them are designed at the stream's rate
\* (dsp/Equalizer.h:136-138).
RunsWhatIsInstalled ==
  [i \in DOMAIN active |-> coeff[active[i]]]
    = FlattenSeq([i \in 1..eqCount |->
        IF installed[i].enabled THEN Designed(installed[i], eqRate) ELSE <<>>])

\* A section that runs has delay elements that are clear, or that its own kind of
\* filter has kept through every buffer since they were: no click when a band is
\* switched on, comes back or changes its type (dsp/Equalizer.cpp:418-422).
NoOldHistory ==
  \A i \in DOMAIN active :
    LET d == delays[active[i]] IN
    d = Clear \/ (~d.missed /\ d.by = installed[active[i][1]].type)

\* Both: over any sequence of settings, rates and resets the sections that run are those
\* of the bands installed last, and none starts from a past that is not its own.
FiltersAreCurrent == RunsWhatIsInstalled /\ NoOldHistory
=============================================================================
