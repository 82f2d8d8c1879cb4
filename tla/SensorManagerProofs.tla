------------------------- MODULE SensorManagerProofs --------------------------
(***************************************************************************)
(* The sensors under any set of workers, channels and troubles: no         *)
(* specimen stays biased unknown to its adapter, a click that is there and *)
(* has kept its supply is never reported as missing, what is valid is      *)
(* fresh, a card that is back is read, and ohms are of their source.       *)
(***************************************************************************)
EXTENDS SensorManager, TLAPS

Conv == [who : Who \cup {"nobody"}, click : Clicks, step : Steps]
Results == [Who -> [Clicks -> Outcomes]]
Biased == {"shot", "read", "off"}

(* The bias is on only where the conversation says so, and past the probe    *)
(* the adapter is open: its failures end the conversation.                   *)
BiasWhere ==
  /\ \A k \in Clicks : ~chip[k].there => ~chip[k].bias
  /\ \A k \in Clicks :
       chip[k].bias /\ open[k] => conv.who # "nobody" /\ conv.click = k /\ conv.step \in Biased
  /\ conv.step # "probe" => open[conv.click]

Typed ==
  /\ chip \in [Clicks -> Chip] /\ open \in [Clicks -> BOOLEAN]
  /\ conv \in Conv /\ result \in Results

Inv == Typed /\ BiasWhere

-----------------------------------------------------------------------------
(* What the operators on the chip return.                                    *)
LEMMA WriteConfigChip ==
  ASSUME NEW c \in Chip, NEW bias \in BOOLEAN, NEW shot \in BOOLEAN
  PROVE  /\ WriteConfig(c, bias, shot) \in Chip
         /\ WriteConfig(c, bias, shot).bias = bias
         /\ WriteConfig(c, bias, shot).there = c.there
<1>1. (c.pending \/ shot) \in BOOLEAN
  BY DEF Chip
<1> QED
  BY <1>1 DEF WriteConfig, Chip

LEMMA ConvertedChip ==
  ASSUME NEW c \in Chip
  PROVE  /\ Converted(c) \in Chip
         /\ Converted(c).bias = c.bias /\ Converted(c).there = c.there
BY DEF Converted, Chip

LEMMA FreshChip ==
  ASSUME NEW c \in Chip
  PROVE  /\ [c EXCEPT !.fresh = FALSE] \in Chip
         /\ [c EXCEPT !.fresh = FALSE].there = c.there
BY DEF Chip

(* One transfer changes one chip, and a click that is not there stays as it  *)
(* is.                                                                       *)
LEMMA TransferChip ==
  ASSUME Inv, NEW k \in Clicks, NEW after \in Chip, NEW ok \in BOOLEAN,
         after.there = chip[k].there, Transfer(k, after, ok)
  PROVE  /\ chip' \in [Clicks -> Chip]
         /\ \A j \in Clicks : j # k => chip'[j] = chip[j]
         /\ ~chip'[k].there => ~chip'[k].bias
         /\ ok /\ chip'[k].bias => after.bias
         /\ chip'[k] \in {chip[k], after}
<1>1. \/ chip' = [chip EXCEPT ![k] = IF chip[k].there THEN after ELSE chip[k]]
      \/ ~ok /\ chip' = chip
  BY DEF Transfer
<1>2. chip[k] \in Chip /\ (~chip[k].there => ~chip[k].bias) /\ chip \in [Clicks -> Chip]
  BY DEF Inv, Typed, BiasWhere
<1>3. chip[k].bias \in BOOLEAN /\ after.bias \in BOOLEAN /\ chip[k].there \in BOOLEAN
  BY <1>2 DEF Chip
<1>4. CASE chip' = [chip EXCEPT ![k] = IF chip[k].there THEN after ELSE chip[k]]
  <2>1. /\ chip' \in [Clicks -> Chip]
        /\ \A j \in Clicks : j # k => chip'[j] = chip[j]
        /\ chip'[k] = IF chip[k].there THEN after ELSE chip[k]
    BY <1>2, <1>4
  <2> QED
    BY <1>2, <1>3, <2>1
<1>5. CASE ~ok /\ chip' = chip
  BY <1>2, <1>5
<1> QED
  BY <1>1, <1>4, <1>5

-----------------------------------------------------------------------------
(* A conversation goes on with its adapter open, or it ends.                 *)
LEMMA GoesInv ==
  ASSUME Inv, conv.who # "nobody", NEW step \in Steps,
         conv' = [conv EXCEPT !.step = step],
         chip' \in [Clicks -> Chip],
         \A j \in Clicks : j # conv.click => chip'[j] = chip[j],
         ~chip'[conv.click].there => ~chip'[conv.click].bias,
         chip'[conv.click].bias => step \in Biased,
         open' \in [Clicks -> BOOLEAN], open'[conv.click],
         \A j \in Clicks : j # conv.click => open'[j] = open[j],
         result' \in Results
  PROVE  Inv'
<1>1. conv \in Conv /\ conv.click \in Clicks
  BY DEF Inv, Typed, Conv
<1>2. /\ conv' \in Conv /\ conv'.who = conv.who /\ conv'.click = conv.click
      /\ conv'.step = step
  BY <1>1 DEF Conv
<1>3. ASSUME NEW j \in Clicks
      PROVE  /\ ~chip'[j].there => ~chip'[j].bias
             /\ chip'[j].bias /\ open'[j] => conv.click = j /\ step \in Biased
  <2>1. CASE j = conv.click
    BY <2>1
  <2>2. CASE j # conv.click
    BY <2>2 DEF Inv, BiasWhere
  <2> QED
    BY <2>1, <2>2
<1>4. Typed'
  BY <1>2 DEF Typed
<1>5. BiasWhere'
  BY <1>2, <1>3 DEF BiasWhere
<1> QED
  BY <1>4, <1>5 DEF Inv

LEMMA EndedInv ==
  ASSUME Inv, conv.who # "nobody", NEW outcome \in Outcomes, Ended(outcome),
         chip' \in [Clicks -> Chip],
         \A j \in Clicks : j # conv.click => chip'[j] = chip[j],
         ~chip'[conv.click].there => ~chip'[conv.click].bias,
         open' \in [Clicks -> BOOLEAN], ~(chip'[conv.click].bias /\ open'[conv.click]),
         \A j \in Clicks : j # conv.click => open'[j] = open[j]
  PROVE  Inv'
<1>1. conv \in Conv /\ conv.click \in Clicks /\ conv.who \in Who /\ result \in Results
  BY DEF Inv, Typed, Conv
<1>2. conv' \in Conv /\ conv'.step = "probe"
  <2>1. 1 \in Clicks /\ 2 \in Clicks /\ "probe" \in Steps
    BY ClickAssumption DEF Steps
  <2>2. CASE conv.click = 1
    <3>1. conv' = [conv EXCEPT !.click = 2, !.step = "probe"]
      BY <2>2 DEF Ended
    <3> QED
      BY <1>1, <2>1, <3>1 DEF Conv
  <2>3. CASE conv.click # 1
    BY <2>1, <2>3 DEF Ended, Conv
  <2> QED
    BY <2>2, <2>3
<1>3. result' \in Results
  <2>1. result' = [result EXCEPT ![conv.who][conv.click] = outcome]
    BY DEF Ended
  <2> QED
    BY <1>1, <2>1 DEF Results
<1>4. ASSUME NEW j \in Clicks
      PROVE  /\ ~chip'[j].there => ~chip'[j].bias
             /\ ~(chip'[j].bias /\ open'[j])
  <2>1. CASE j = conv.click
    BY <2>1
  <2>2. CASE j # conv.click
    BY <2>2 DEF Inv, BiasWhere
  <2> QED
    BY <2>1, <2>2
<1>5. Typed'
  BY <1>2, <1>3 DEF Typed
<1>6. BiasWhere'
  BY <1>2, <1>4 DEF BiasWhere
<1> QED
  BY <1>5, <1>6 DEF Inv

(* A failure closes the adapter, so whatever bias it leaves is expected.     *)
LEMMA FailedInv ==
  ASSUME Inv, conv.who # "nobody", Failed,
         chip' \in [Clicks -> Chip],
         \A j \in Clicks : j # conv.click => chip'[j] = chip[j],
         ~chip'[conv.click].there => ~chip'[conv.click].bias
  PROVE  Inv'
<1>1. open \in [Clicks -> BOOLEAN] /\ conv.click \in Clicks
  BY DEF Inv, Typed, Conv
<1>2. open' = [open EXCEPT ![conv.click] = FALSE] /\ Ended("failed")
  BY DEF Failed
<1>3. /\ open' \in [Clicks -> BOOLEAN] /\ ~open'[conv.click]
      /\ \A j \in Clicks : j # conv.click => open'[j] = open[j]
  BY <1>1, <1>2
<1> QED
  BY <1>2, <1>3, EndedInv DEF Outcomes

-----------------------------------------------------------------------------
(* The steps of the conversation.                                            *)
LEMMA SpeaksFacts ==
  ASSUME Inv, NEW step, Speaks(step)
  PROVE  /\ conv.who # "nobody" /\ conv.step = step /\ conv.click \in Clicks
         /\ conv.who \in Who /\ chip[conv.click] \in Chip
         /\ chip \in [Clicks -> Chip] /\ open \in [Clicks -> BOOLEAN] /\ result \in Results
         /\ ~chip[conv.click].there => ~chip[conv.click].bias
         /\ step # "probe" => open[conv.click]
         /\ step \notin Biased => ~(chip[conv.click].bias /\ open[conv.click])
BY DEF Inv, Typed, BiasWhere, Conv, Speaks

LEMMA GoesIs ==
  ASSUME NEW step, Goes(step)
  PROVE  conv' = [conv EXCEPT !.step = step] /\ result' = result
BY DEF Goes

LEMMA ProbeInv ==
  ASSUME Inv, ProbeClick
  PROVE  Inv'
<1> DEFINE k == conv.click
           fresh == [chip[k] EXCEPT !.fresh = FALSE]
           after == WriteConfig(fresh, FALSE, FALSE)
<1>1. Speaks("probe")
  BY DEF ProbeClick
<1>2. after \in Chip /\ after.bias = FALSE /\ after.there = chip[k].there
  BY <1>1, SpeaksFacts, FreshChip, WriteConfigChip
<1>3. \/ ~open[k] /\ Ended("failed") /\ UNCHANGED <<chip, open>>
      \/ \E ok \in BOOLEAN :
            /\ Transfer(k, after, ok)
            /\ IF ok THEN open' = [open EXCEPT ![k] = TRUE] /\ Goes("readback") ELSE Failed
  BY DEF ProbeClick
<1> HIDE DEF after
<1>4. CASE ~open[k] /\ Ended("failed") /\ UNCHANGED <<chip, open>>
  BY <1>1, <1>4, SpeaksFacts, EndedInv DEF Outcomes
<1>5. ASSUME NEW ok \in BOOLEAN, Transfer(k, after, ok),
             IF ok THEN open' = [open EXCEPT ![k] = TRUE] /\ Goes("readback") ELSE Failed
      PROVE  Inv'
  <2>1. /\ chip' \in [Clicks -> Chip] /\ \A j \in Clicks : j # k => chip'[j] = chip[j]
        /\ ~chip'[k].there => ~chip'[k].bias
        /\ ok => ~chip'[k].bias
    BY <1>1, <1>2, <1>5, SpeaksFacts, TransferChip
  <2>2. CASE ok
    <3>1. /\ open' \in [Clicks -> BOOLEAN] /\ open'[k]
          /\ \A j \in Clicks : j # k => open'[j] = open[j]
      BY <1>1, <1>5, <2>2, SpeaksFacts
    <3> QED
      BY <1>1, <1>5, <2>1, <2>2, <3>1, SpeaksFacts, GoesIs, GoesInv DEF Steps
  <2>3. CASE ~ok
    BY <1>1, <1>5, <2>1, <2>3, SpeaksFacts, FailedInv
  <2> QED
    BY <2>2, <2>3
<1> QED
  BY <1>3, <1>4, <1>5

LEMMA ReadbackInv ==
  ASSUME Inv, Readback
  PROVE  Inv'
<1> DEFINE k == conv.click
<1>1. Speaks("readback")
  BY DEF Readback
<1>2. PICK ok \in BOOLEAN :
        /\ Transfer(k, chip[k], ok)
        /\ IF ~ok THEN Failed
           ELSE /\ UNCHANGED open
                /\ IF Answers(chip[k]) THEN Goes("bias") ELSE Ended("absent")
  BY DEF Readback
<1>3. /\ chip' \in [Clicks -> Chip] /\ \A j \in Clicks : j # k => chip'[j] = chip[j]
      /\ ~chip'[k].there => ~chip'[k].bias
      /\ chip'[k] = chip[k]
  BY <1>1, <1>2, SpeaksFacts, TransferChip
<1>4. ~chip[k].bias
  BY <1>1, SpeaksFacts DEF Biased
<1>5. CASE ~ok
  BY <1>1, <1>2, <1>3, <1>5, SpeaksFacts, FailedInv
<1>6. CASE ok /\ Answers(chip[k])
  BY <1>1, <1>2, <1>3, <1>4, <1>6, SpeaksFacts, GoesIs, GoesInv DEF Steps
<1>7. CASE ok /\ ~Answers(chip[k])
  BY <1>1, <1>2, <1>3, <1>4, <1>7, SpeaksFacts, EndedInv DEF Outcomes
<1> QED
  BY <1>5, <1>6, <1>7

LEMMA BiasOnInv ==
  ASSUME Inv, BiasOn
  PROVE  Inv'
<1> DEFINE k == conv.click
           after == WriteConfig(chip[k], TRUE, FALSE)
<1>1. Speaks("bias")
  BY DEF BiasOn
<1>2. PICK ok \in BOOLEAN :
        /\ Transfer(k, after, ok)
        /\ IF ok THEN UNCHANGED open /\ Goes("shot") ELSE Failed
  BY DEF BiasOn
<1>3. after \in Chip /\ after.there = chip[k].there
  BY <1>1, SpeaksFacts, WriteConfigChip
<1> HIDE DEF after
<1>4. /\ chip' \in [Clicks -> Chip] /\ \A j \in Clicks : j # k => chip'[j] = chip[j]
      /\ ~chip'[k].there => ~chip'[k].bias
  BY <1>1, <1>2, <1>3, SpeaksFacts, TransferChip
<1>5. CASE ok
  BY <1>1, <1>2, <1>4, <1>5, SpeaksFacts, GoesIs, GoesInv DEF Steps, Biased
<1>6. CASE ~ok
  BY <1>1, <1>2, <1>4, <1>6, SpeaksFacts, FailedInv
<1> QED
  BY <1>5, <1>6

(* The best-effort write.                                                    *)
LEMMA BiasOffTryChip ==
  ASSUME Inv, NEW k \in Clicks, NEW c \in Chip, BiasOffTry(k, c), c.there = chip[k].there
  PROVE  /\ chip' \in [Clicks -> Chip] /\ \A j \in Clicks : j # k => chip'[j] = chip[j]
         /\ ~chip'[k].there => ~chip'[k].bias
<1>1. chip \in [Clicks -> Chip] /\ (~chip[k].there => ~chip[k].bias)
  BY DEF Inv, Typed, BiasWhere
<1>2. PICK d \in {WriteConfig(c, FALSE, FALSE), c} :
        chip' = [chip EXCEPT ![k] = IF chip[k].there THEN d ELSE chip[k]]
  BY DEF BiasOffTry
<1>3. d \in Chip /\ d.there = c.there
  BY WriteConfigChip
<1> QED
  BY <1>1, <1>2, <1>3

LEMMA OneShotInv ==
  ASSUME Inv, OneShot
  PROVE  Inv'
<1> DEFINE k == conv.click
           due == WriteConfig(chip[k], TRUE, TRUE)
<1>1. Speaks("shot")
  BY DEF OneShot
<1>2. PICK ok \in BOOLEAN :
        IF ~ok THEN /\ BiasOffTry(k, due) \/ BiasOffTry(k, chip[k])
                    /\ Failed
        ELSE Transfer(k, due, ok) /\ UNCHANGED open /\ Goes("read")
  BY DEF OneShot
<1>3. due \in Chip /\ due.there = chip[k].there
  BY <1>1, SpeaksFacts, WriteConfigChip
<1> HIDE DEF due
<1>4. /\ chip' \in [Clicks -> Chip] /\ \A j \in Clicks : j # k => chip'[j] = chip[j]
      /\ ~chip'[k].there => ~chip'[k].bias
  BY <1>1, <1>2, <1>3, SpeaksFacts, TransferChip, BiasOffTryChip
<1>5. CASE ok
  BY <1>1, <1>2, <1>4, <1>5, SpeaksFacts, GoesIs, GoesInv DEF Steps, Biased
<1>6. CASE ~ok
  BY <1>1, <1>2, <1>4, <1>6, SpeaksFacts, FailedInv
<1> QED
  BY <1>5, <1>6

LEMMA ReadCodeInv ==
  ASSUME Inv, ReadCode
  PROVE  Inv'
<1> DEFINE k == conv.click
           done == Converted(chip[k])
<1>1. Speaks("read")
  BY DEF ReadCode
<1>2. done \in Chip /\ done.there = chip[k].there /\ done.bias = chip[k].bias
  BY <1>1, SpeaksFacts, ConvertedChip
<1>3. \/ /\ chip' = [chip EXCEPT ![k] = done]
         /\ \E code \in Read(done) : result' = [result EXCEPT ![conv.who][k] = code]
         /\ conv' = [conv EXCEPT !.step = "off"]
         /\ UNCHANGED <<open, phase>>
      \/ BiasOffTry(k, done) /\ Failed
  BY DEF ReadCode
<1> HIDE DEF done
<1>4. CASE BiasOffTry(k, done) /\ Failed
  BY <1>1, <1>2, <1>4, SpeaksFacts, BiasOffTryChip, FailedInv
<1>5. ASSUME chip' = [chip EXCEPT ![k] = done], conv' = [conv EXCEPT !.step = "off"],
             UNCHANGED open, NEW code \in Read(done),
             result' = [result EXCEPT ![conv.who][k] = code]
      PROVE  Inv'
  <2>1. code \in Outcomes
    BY <1>2, <1>5 DEF Read, Chip, Outcomes, Readings
  <2>2. result' \in Results
    BY <1>1, <1>5, <2>1, SpeaksFacts DEF Results
  <2>3. /\ chip' \in [Clicks -> Chip] /\ chip'[k] = done
        /\ \A j \in Clicks : j # k => chip'[j] = chip[j]
    BY <1>1, <1>2, <1>5, SpeaksFacts
  <2> QED
    BY <1>1, <1>2, <1>5, <2>2, <2>3, SpeaksFacts, GoesInv DEF Steps, Biased
<1> QED
  BY <1>3, <1>4, <1>5

LEMMA BiasOffInv ==
  ASSUME Inv, BiasOff
  PROVE  Inv'
<1> DEFINE k == conv.click
           read == result[conv.who][k]
           after == WriteConfig(chip[k], FALSE, FALSE)
<1>1. Speaks("off")
  BY DEF BiasOff
<1>2. PICK ok \in BOOLEAN :
        /\ Transfer(k, after, ok)
        /\ IF ~ok THEN Failed
           ELSE /\ UNCHANGED open
                /\ IF read = "range" THEN Goes("clear") ELSE Ended(read)
  BY DEF BiasOff
<1>3. after \in Chip /\ after.bias = FALSE /\ after.there = chip[k].there
  BY <1>1, SpeaksFacts, WriteConfigChip
<1> HIDE DEF after
<1>4. /\ chip' \in [Clicks -> Chip] /\ \A j \in Clicks : j # k => chip'[j] = chip[j]
      /\ ~chip'[k].there => ~chip'[k].bias
      /\ ok => ~chip'[k].bias
  BY <1>1, <1>2, <1>3, SpeaksFacts, TransferChip
<1>5. read \in Outcomes
  BY <1>1, SpeaksFacts DEF Results
<1> HIDE DEF read
<1>6. CASE ~ok
  BY <1>1, <1>2, <1>4, <1>6, SpeaksFacts, FailedInv
<1>7. CASE ok /\ read = "range"
  BY <1>1, <1>2, <1>4, <1>7, SpeaksFacts, GoesIs, GoesInv DEF Steps
<1>8. CASE ok /\ read # "range"
  BY <1>1, <1>2, <1>4, <1>5, <1>8, SpeaksFacts, EndedInv
<1> QED
  BY <1>6, <1>7, <1>8

LEMMA ClearFaultInv ==
  ASSUME Inv, ClearFault
  PROVE  Inv'
<1> DEFINE k == conv.click
           after == ClearsFault(chip[k])
<1>1. Speaks("clear") /\ UNCHANGED open
  BY DEF ClearFault
<1>2. PICK ok \in BOOLEAN : Transfer(k, after, ok) /\ Ended("range")
  BY DEF ClearFault
<1>3. after \in Chip /\ after.bias = FALSE /\ after.there = chip[k].there
  BY <1>1, SpeaksFacts, WriteConfigChip DEF ClearsFault
<1> HIDE DEF after
<1>4. /\ chip' \in [Clicks -> Chip] /\ \A j \in Clicks : j # k => chip'[j] = chip[j]
      /\ ~chip'[k].there => ~chip'[k].bias
      /\ chip'[k] \in {chip[k], after}
  BY <1>1, <1>2, <1>3, SpeaksFacts, TransferChip
<1>5. ~chip'[k].bias
  BY <1>1, <1>3, <1>4, SpeaksFacts DEF Biased
<1> QED
  BY <1>1, <1>2, <1>4, <1>5, SpeaksFacts, EndedInv DEF Outcomes, Readings

-----------------------------------------------------------------------------
(* Everybody else.                                                           *)
LEMMA StillInv ==
  ASSUME Inv, UNCHANGED <<conv, open>>, result' \in Results, chip' \in [Clicks -> Chip],
         \A j \in Clicks : /\ chip'[j].bias => chip[j].bias
                           /\ ~chip'[j].there => ~chip'[j].bias
  PROVE  Inv'
BY DEF Inv, Typed, BiasWhere

LEMMA BeginInv ==
  ASSUME Inv, NEW w \in Who, Begin(w)
  PROVE  Inv'
<1>1. /\ conv.who = "nobody" /\ conv' = [who |-> w, click |-> 1, step |-> "probe"]
      /\ UNCHANGED <<chip, open, result>>
  BY DEF Begin
<1>2. conv' \in Conv /\ conv'.step = "probe"
  BY <1>1, ClickAssumption DEF Conv, Steps
<1> QED
  BY <1>1, <1>2 DEF Inv, Typed, BiasWhere

LEMMA UpdateInv ==
  ASSUME Inv, NEW w \in Who, UpdateClickHealth(w), UNCHANGED <<chip, open, conv>>
  PROVE  Inv'
<1>1. result' = [result EXCEPT ![w] = [k \in Clicks |-> "none"]]
  BY DEF UpdateClickHealth
<1>2. [k \in Clicks |-> "none"] \in [Clicks -> Outcomes]
  BY DEF Outcomes
<1>3. result' \in Results
  BY <1>1, <1>2 DEF Inv, Typed, Results
<1> QED
  BY <1>3 DEF Inv, Typed, BiasWhere

LEMMA ChipInv ==
  ASSUME Inv, NEW k \in Clicks, NEW c \in Chip, ChipOnly, chip' = [chip EXCEPT ![k] = c],
         c.bias => chip[k].bias, ~c.there => ~c.bias
  PROVE  Inv'
<1>1. /\ chip' \in [Clicks -> Chip] /\ chip'[k] = c
      /\ \A j \in Clicks : j # k => chip'[j] = chip[j]
  BY DEF Inv, Typed
<1>2. \A j \in Clicks : /\ chip'[j].bias => chip[j].bias
                        /\ ~chip'[j].there => ~chip'[j].bias
  BY <1>1 DEF Inv, BiasWhere
<1>3. result' \in Results /\ UNCHANGED <<conv, open>>
  BY DEF ChipOnly, Inv, Typed
<1> QED
  BY <1>1, <1>2, <1>3, StillInv

LEMMA HardwareInv ==
  ASSUME Inv, NEW k \in Clicks, Converts(k) \/ Vanishes(k) \/ Returns(k) \/ SpecimenChanges(k)
  PROVE  Inv'
<1>1. chip[k] \in Chip /\ (~chip[k].there => ~chip[k].bias) /\ chip \in [Clicks -> Chip]
  BY DEF Inv, Typed, BiasWhere
<1>2. CASE Converts(k)
  <2>1. ChipOnly /\ chip' = [chip EXCEPT ![k] = Converted(chip[k])]
    BY <1>2 DEF Converts
  <2> QED
    BY <1>1, <2>1, ConvertedChip, ChipInv
<1>3. CASE Vanishes(k)
  <2> DEFINE c == [PowerOn(chip[k]) EXCEPT !.there = FALSE]
  <2>1. ChipOnly /\ chip' = [chip EXCEPT ![k] = c]
    BY <1>3 DEF Vanishes
  <2>2. c \in Chip /\ c.bias = FALSE
    BY <1>1 DEF PowerOn, Chip
  <2> HIDE DEF c
  <2> QED
    BY <1>1, <2>1, <2>2, ChipInv
<1>4. CASE Returns(k)
  <2> DEFINE c == [chip[k] EXCEPT !.there = TRUE]
  <2>1. ChipOnly /\ chip' = [chip EXCEPT ![k] = c]
    BY <1>1, <1>4 DEF Returns
  <2>2. c \in Chip /\ c.bias = chip[k].bias /\ c.there = TRUE
    BY <1>1 DEF Chip
  <2> HIDE DEF c
  <2> QED
    BY <1>1, <2>1, <2>2, ChipInv
<1>5. CASE SpecimenChanges(k)
  <2> DEFINE c == [chip[k] EXCEPT !.specimen =
                      IF chip[k].specimen = "sound" THEN "range" ELSE "sound"]
  <2>1. ChipOnly /\ chip' = [chip EXCEPT ![k] = c]
    BY <1>1, <1>5 DEF SpecimenChanges
  <2>2. c \in Chip /\ c.bias = chip[k].bias /\ c.there = chip[k].there
    BY <1>1 DEF Chip
  <2> HIDE DEF c
  <2> QED
    BY <1>1, <2>1, <2>2, ChipInv
<1> QED
  BY <1>2, <1>3, <1>4, <1>5

LEMMA KillInv ==
  ASSUME Inv, KillClicks
  PROVE  Inv'
<1>1. /\ open' = [k \in Clicks |-> FALSE] /\ UNCHANGED chip
      /\ conv' = [who |-> "nobody", click |-> 1, step |-> "probe"]
      /\ result' = [w \in Who |-> [k \in Clicks |-> "none"]]
  BY DEF KillClicks
<1>2. conv' \in Conv /\ conv'.step = "probe"
  BY <1>1, ClickAssumption DEF Conv, Steps
<1>3. open' \in [Clicks -> BOOLEAN] /\ \A k \in Clicks : ~open'[k]
  BY <1>1
<1>4. result' \in Results
  BY <1>1 DEF Results, Outcomes
<1> QED
  BY <1>1, <1>2, <1>3, <1>4 DEF Inv, Typed, BiasWhere

LEMMA QuietInv ==
  ASSUME Inv, UNCHANGED <<chip, open, conv, result>>
  PROVE  Inv'
BY DEF Inv, Typed, BiasWhere

LEMMA InitInv == Init => Inv
<1> SUFFICES ASSUME Init PROVE Inv
  OBVIOUS
<1>1. ClicksInit
  BY DEF Init
<1>2. chip \in [Clicks -> Chip] /\ \A k \in Clicks : chip[k].bias = FALSE
  <2> DEFINE Cold == {[there |-> t, cfg |-> FALSE, bias |-> FALSE, pending |-> FALSE,
                       register |-> "zero", fresh |-> FALSE, specimen |-> "sound"] :
                         t \in BOOLEAN}
  <2>1. chip \in [Clicks -> Cold]
    BY <1>1 DEF ClicksInit
  <2>2. \A c \in Cold : c \in Chip /\ c.bias = FALSE
    <3>1. SUFFICES ASSUME NEW c \in Cold PROVE c \in Chip /\ c.bias = FALSE
      OBVIOUS
    <3>2. PICK t \in BOOLEAN :
             c = [there |-> t, cfg |-> FALSE, bias |-> FALSE, pending |-> FALSE,
                  register |-> "zero", fresh |-> FALSE, specimen |-> "sound"]
      BY <3>1 DEF Cold
    <3>3. c.bias = FALSE
      BY <3>2
    <3>4. c \in Chip
      BY <3>2 DEF Chip
    <3> QED
      BY <3>3, <3>4
  <2> HIDE DEF Cold
  <2>3. \A k \in Clicks : chip[k] \in Cold
    BY <2>1
  <2> QED
    BY <2>1, <2>2, <2>3
<1>3. open \in [Clicks -> BOOLEAN] /\ result \in Results
  BY <1>1 DEF ClicksInit, Results, Outcomes
<1>4. conv \in Conv /\ conv.step = "probe"
  BY <1>1, ClickAssumption DEF ClicksInit, Conv, Steps
<1> QED
  BY <1>2, <1>3, <1>4 DEF Inv, Typed, BiasWhere

LEMMA StepInv == Inv /\ [Next]_vars => Inv'
<1> SUFFICES ASSUME Inv, [Next]_vars PROVE Inv'
  OBVIOUS
<1>1. CASE UNCHANGED clickVars
  BY <1>1, QuietInv DEF clickVars
<1>2. CASE PollRtd \/ PublishRtd \/ CheckSequent \/ CardRepair
  BY <1>1, <1>2 DEF PollRtd, PublishRtd, CheckSequent, CardRepair, RtdOnly
<1>3. CASE (\E s \in Scalars : PollScalar(s)) \/ Snapshot \/ TimePasses \/ TempTrouble
  BY <1>1, <1>3 DEF PollScalar, Snapshot, TimePasses, TempTrouble
<1>4. CASE PollClicks
  <2>1. CASE ClickIo
    BY <2>1, ProbeInv, ReadbackInv, BiasOnInv, OneShotInv, ReadCodeInv, BiasOffInv,
       ClearFaultInv DEF ClickIo
  <2>2. CASE Begin("worker")
    BY <2>2, BeginInv DEF Who
  <2>3. CASE StoreBusOk
    BY <2>3, QuietInv DEF StoreBusOk
  <2>4. CASE \E k \in Clicks : Converts(k)
    BY <2>4, HardwareInv
  <2> QED
    BY <1>4, <2>1, <2>2, <2>3, <2>4 DEF PollClicks
<1>5. CASE PublishMax31865 \/ CheckMax31865
  BY <1>5, UpdateInv, BeginInv DEF PublishMax31865, CheckMax31865, PublishClicks,
     PublishCheck, Who
<1>6. CASE Kill
  BY <1>6, KillInv DEF Kill
<1>7. CASE ClickTrouble \/ ClickRepair
  <2>1. CASE SpiFails \/ SpiBack
    BY <2>1, QuietInv DEF SpiFails, SpiBack
  <2> QED
    BY <1>7, <2>1, HardwareInv DEF ClickTrouble, ClickRepair
<1>8. CASE UNCHANGED vars
  BY <1>1, <1>8 DEF vars
<1> QED
  BY <1>2, <1>3, <1>4, <1>5, <1>6, <1>7, <1>8 DEF Next

(* The chips, the handles and the conversation agree after every transfer,   *)
(* trouble and kill (Max31865Adapter::Probe, ReadOneShot).                   *)
THEOREM Invariant == Spec => []Inv
  BY InitInv, StepInv, PTL DEF Spec

(* Outside its conversation no specimen is heated by a bias current that its *)
(* adapter does not know of, whatever transfer failed and whenever the       *)
(* process was killed (Max31865Adapter::ReadOneShot).                        *)
THEOREM BiasSafe == Spec => []BiasKnown
<1>1. Inv => BiasKnown
  BY DEF Inv, BiasWhere, BiasKnown
<1> QED
  BY <1>1, Invariant, PTL

-----------------------------------------------------------------------------
(* Who may write that a click is missing.                                    *)
LEMMA EndedAbsent ==
  ASSUME Inv, conv.who \in Who, conv.click \in Clicks, NEW outcome, Ended(outcome),
         NEW w \in Who, NEW k \in Clicks,
         result[w][k] # "absent", result'[w][k] = "absent"
  PROVE  w = conv.who /\ k = conv.click /\ outcome = "absent"
<1>1. result' = [result EXCEPT ![conv.who][conv.click] = outcome]
  BY DEF Ended
<1> QED
  BY <1>1 DEF Inv, Typed, Results

LEMMA PresentStep ==
  ASSUME Inv, [Next]_vars, NEW w \in Who, NEW k \in Clicks,
         result[w][k] # "absent", result'[w][k] = "absent"
  PROVE  ~chip[k].there \/ ~chip[k].cfg
<1>1. ASSUME UNCHANGED result PROVE FALSE
  BY <1>1
<1>2. ASSUME NEW step, Speaks(step)
      PROVE  conv.who \in Who /\ conv.click \in Clicks /\ chip[conv.click] \in Chip
  BY <1>2, SpeaksFacts
<1>3. ASSUME NEW step, Goes(step) PROVE FALSE
  BY <1>1, <1>3 DEF Goes
<1>4. CASE ProbeClick
  <2>1. Speaks("probe") /\ (Ended("failed") \/ Goes("readback") \/ Failed)
    BY <1>4 DEF ProbeClick
  <2> QED
    BY <1>2, <1>3, <2>1, EndedAbsent DEF Failed
<1>5. CASE Readback
  <2>1. Speaks("readback")
    BY <1>5 DEF Readback
  <2>2. ~Answers(chip[conv.click]) /\ k = conv.click
    <3>1. PICK ok \in BOOLEAN :
             IF ~ok THEN Failed
             ELSE /\ UNCHANGED open
                  /\ IF Answers(chip[conv.click]) THEN Goes("bias") ELSE Ended("absent")
      BY <1>5 DEF Readback
    <3>2. CASE Failed
      BY <1>2, <2>1, <3>2, EndedAbsent DEF Failed
    <3>3. CASE Goes("bias")
      BY <1>3, <3>3
    <3>4. CASE ~Answers(chip[conv.click]) /\ Ended("absent")
      BY <1>2, <2>1, <3>4, EndedAbsent
    <3> QED
      BY <3>1, <3>2, <3>3, <3>4
  <2>3. ~(chip[k].bias)
    BY <2>1, <2>2, SpeaksFacts DEF Biased
  <2> QED
    BY <2>2, <2>3 DEF Answers
<1>6. CASE BiasOn
  <2>1. Speaks("bias") /\ (Goes("shot") \/ Failed)
    BY <1>6 DEF BiasOn
  <2> QED
    BY <1>2, <1>3, <2>1, EndedAbsent DEF Failed
<1>7. CASE OneShot
  <2>1. Speaks("shot") /\ (Goes("read") \/ Failed)
    BY <1>7 DEF OneShot
  <2> QED
    BY <1>2, <1>3, <2>1, EndedAbsent DEF Failed
<1>8. CASE ReadCode
  <2>1. Speaks("read") /\ (\/ Failed
                          \/ \E code \in Read(Converted(chip[conv.click])) :
                               result' = [result EXCEPT ![conv.who][conv.click] = code])
    BY <1>8 DEF ReadCode
  <2>2. CASE Failed
    BY <1>2, <2>1, <2>2, EndedAbsent DEF Failed
  <2>3. ASSUME NEW code \in Read(Converted(chip[conv.click])),
               result' = [result EXCEPT ![conv.who][conv.click] = code]
        PROVE  FALSE
    <3>1. Converted(chip[conv.click]) \in Chip
      BY <1>2, <2>1, ConvertedChip
    <3>2. code # "absent"
      BY <3>1 DEF Read, Chip
    <3> QED
      BY <1>2, <2>1, <2>3, <3>2 DEF Inv, Typed, Results
  <2> QED
    BY <2>1, <2>2, <2>3
<1>9. CASE BiasOff
  <2>1. Speaks("off") /\ (Failed \/ Goes("clear") \/ Ended(result[conv.who][conv.click]))
    BY <1>9 DEF BiasOff
  <2> QED
    BY <1>2, <1>3, <2>1, EndedAbsent DEF Failed
<1>10. CASE ClearFault
  <2>1. Speaks("clear") /\ Ended("range")
    BY <1>10 DEF ClearFault
  <2> QED
    BY <1>2, <2>1, EndedAbsent
<1>11. CASE \E v \in Who : UpdateClickHealth(v)
  <2>1. PICK v \in Who : result' = [result EXCEPT ![v] = [j \in Clicks |-> "none"]]
    BY <1>11 DEF UpdateClickHealth
  <2> QED
    BY <2>1 DEF Inv, Typed, Results
<1>12. CASE KillClicks
  BY <1>12 DEF KillClicks
<1>13. ClickIo \/ KillClicks \/ (\E v \in Who : UpdateClickHealth(v)) \/ UNCHANGED result
  <2>1. CASE UNCHANGED clickVars
    BY <2>1 DEF clickVars
  <2>2. CASE PollRtd \/ PublishRtd \/ CheckSequent \/ CardRepair
    BY <2>1, <2>2 DEF PollRtd, PublishRtd, CheckSequent, CardRepair, RtdOnly
  <2>3. CASE (\E s \in Scalars : PollScalar(s)) \/ Snapshot \/ TimePasses \/ TempTrouble
    BY <2>1, <2>3 DEF PollScalar, Snapshot, TimePasses, TempTrouble
  <2>4. CASE PollClicks \/ PublishMax31865 \/ CheckMax31865 \/ Kill
    BY <2>4 DEF PollClicks, PublishMax31865, CheckMax31865, Kill, PublishClicks,
       PublishCheck, Begin, StoreBusOk, Converts, ChipOnly, Who
  <2>5. CASE ClickTrouble \/ ClickRepair
    BY <2>5 DEF ClickTrouble, ClickRepair, SpiFails, SpiBack, Vanishes, Returns,
       SpecimenChanges, ChipOnly
  <2>6. CASE UNCHANGED vars
    BY <2>1, <2>6 DEF vars
  <2> QED
    BY <2>2, <2>3, <2>4, <2>5, <2>6 DEF Next
<1> QED
  BY <1>1, <1>4, <1>5, <1>6, <1>7, <1>8, <1>9, <1>10, <1>11, <1>12, <1>13 DEF ClickIo

(* A click that is there and has kept its supply since the probe's write is  *)
(* not reported as missing, also after a kill has left a conversion pending  *)
(* (Max31865Adapter::VerifyPresence).                                        *)
THEOREM PresentSafe == Spec => PresentIsDetected
<1>1. Inv /\ [Next]_vars => [\A w \in Who, k \in Clicks :
          result[w][k] # "absent" /\ result'[w][k] = "absent" =>
              ~chip[k].there \/ ~chip[k].cfg]_result
  BY PresentStep
<1> QED
  BY <1>1, Invariant, PTL DEF Spec, PresentIsDetected

-----------------------------------------------------------------------------
(* The temperatures.  What a conversation with the card leaves of the        *)
(* adapter: a reading is of the sound channels and of now, a failure on a    *)
(* card that is up leaves the handle closed, and a handle that is not dead   *)
(* does not fail there.                                                      *)
Dead(a) == a.open /\ a.dead

LEMMA OpenedRtd ==
  ASSUME NEW a \in Rtd, NEW o \in Opened(a)
  PROVE  /\ o \in Rtd /\ o.phase = a.phase
         /\ o.ok => o.open
         /\ card.up => o.ok
         /\ card.up /\ ~Dead(a) => ~o.dead
BY DEF Opened, Rtd, Dead

LEMMA IoFailedRtd ==
  ASSUME NEW a \in Rtd
  PROVE  /\ IoFailed(a) \in Rtd /\ IoFailed(a).phase = a.phase
         /\ ~IoFailed(a).ok /\ ~IoFailed(a).open
<1>1. IoFailed(a) \in Rtd
  BY DEF IoFailed, Rtd
<1>2. IoFailed(a).phase = a.phase
  BY DEF IoFailed, Rtd
<1>3. ~IoFailed(a).ok /\ ~IoFailed(a).open
  BY DEF IoFailed, Rtd
<1> QED
  BY <1>1, <1>2, <1>3

LEMMA ProbeCardRtd ==
  ASSUME NEW a \in Rtd, NEW p \in ProbeCard(a)
  PROVE  /\ p \in Rtd /\ p.phase = a.phase
         /\ card.up /\ card.kind = "expected" =>
               /\ ~p.ok => ~p.open
               /\ ~Dead(a) => p.ok /\ ~p.dead
<1>1. PICK o \in Opened(a) :
         p \in IF ~o.ok THEN {o} ELSE
               (IF MayWork(o) THEN {[o EXCEPT !.ok = card.kind = "expected",
                                              !.probed = card.kind = "expected"]} ELSE {})
               \cup (IF MayFail(o) THEN {IoFailed(o)} ELSE {})
  BY DEF ProbeCard
<1>2. /\ o \in Rtd /\ o.phase = a.phase /\ (card.up => o.ok)
      /\ (card.up /\ ~Dead(a) => ~o.dead)
  BY OpenedRtd
<1>3. CASE ~o.ok /\ p = o
  BY <1>2, <1>3
<1>4. CASE p = [o EXCEPT !.ok = card.kind = "expected", !.probed = card.kind = "expected"]
           /\ MayWork(o)
  <2> DEFINE b == card.kind = "expected"
  <2>1. b \in BOOLEAN
    OBVIOUS
  <2> HIDE DEF b
  <2>2. p = [o EXCEPT !.ok = b, !.probed = b]
    BY <1>4 DEF b
  <2>3. p \in Rtd /\ p.phase = o.phase /\ p.ok = b /\ p.dead = o.dead
    BY <1>2, <2>1, <2>2 DEF Rtd
  <2> QED
    BY <1>2, <1>4, <2>3 DEF b, MayWork
<1>5. CASE p = IoFailed(o) /\ MayFail(o)
  BY <1>2, <1>5, IoFailedRtd DEF MayFail
<1> QED
  BY <1>1, <1>3, <1>4, <1>5

LEMMA ReadAllRtd ==
  ASSUME card \in Card, NEW a \in Rtd, NEW r \in ReadAll(a)
  PROVE  /\ r \in Rtd /\ r.phase = a.phase
         /\ r.ok => r.age = 0
         /\ card.up => /\ ~r.ok => ~r.open
                       /\ ~Dead(a) => r.ok /\ ~r.dead
<1> DEFINE bursts(o) == {o.burst /\ card.long} \cup (IF card.up THEN {} ELSE {FALSE})
<1>1. PICK o \in Opened(a) :
         r \in IF ~o.ok THEN {o} ELSE
               (IF MayWork(o)
                THEN {[o EXCEPT !.burst = b, !.valid = card.sound, !.age = 0] : b \in bursts(o)}
                ELSE {})
               \cup (IF MayFail(o) THEN {[IoFailed(o) EXCEPT !.burst = FALSE]} ELSE {})
  BY DEF ReadAll
<1>2. /\ o \in Rtd /\ o.phase = a.phase /\ (card.up => o.ok)
      /\ (card.up /\ ~Dead(a) => ~o.dead)
  BY OpenedRtd
<1>3. \A b \in bursts(o) : b \in BOOLEAN
  OBVIOUS
<1>4. card.sound \in SUBSET Channels /\ 0 \in 0..Stale
  BY TemperatureAssumption DEF Card
<1> HIDE DEF bursts
<1>5. CASE ~o.ok /\ r = o
  BY <1>2, <1>5
<1>6. ASSUME MayWork(o), o.ok, NEW b \in bursts(o),
             r = [o EXCEPT !.burst = b, !.valid = card.sound, !.age = 0]
      PROVE  /\ r \in Rtd /\ r.phase = a.phase /\ r.age = 0
             /\ r.ok /\ ~r.dead
  <2>1. r \in Rtd /\ r.phase = o.phase /\ r.age = 0 /\ r.ok = o.ok /\ r.dead = o.dead
    BY <1>2, <1>3, <1>4, <1>6 DEF Rtd
  <2> QED
    BY <1>2, <1>6, <2>1 DEF MayWork
<1>7. CASE MayFail(o) /\ r = [IoFailed(o) EXCEPT !.burst = FALSE]
  <2>1. IoFailed(o) \in Rtd
    BY <1>2, IoFailedRtd
  <2>2. /\ r \in Rtd /\ r.phase = IoFailed(o).phase
        /\ r.ok = IoFailed(o).ok /\ r.open = IoFailed(o).open
    BY <1>7, <2>1 DEF Rtd
  <2> QED
    BY <1>2, <1>7, <2>2, IoFailedRtd DEF MayFail
<1> QED
  BY <1>1, <1>5, <1>6, <1>7

LEMMA ConverseRtd ==
  ASSUME card \in Card, NEW a \in Rtd, NEW r \in Converse(a)
  PROVE  /\ r \in Rtd /\ r.phase = a.phase
         /\ r.ok => r.age = 0
         /\ card.up /\ card.kind = "expected" =>
               /\ ~r.ok => ~r.open
               /\ ~Dead(a) => r.ok /\ ~r.dead
<1> DEFINE fine == [a EXCEPT !.ok = TRUE]
<1>1. PICK p : /\ p \in (IF a.probed THEN {fine} ELSE ProbeCard(a))
               /\ r \in (IF p.ok THEN {[q EXCEPT !.probed = q.ok] : q \in ReadAll(p)} ELSE {p})
  BY DEF Converse
<1>2. /\ fine \in Rtd /\ fine.phase = a.phase /\ fine.ok
      /\ fine.open = a.open /\ fine.dead = a.dead
  BY DEF Rtd
<1> HIDE DEF fine
<1>3. /\ p \in Rtd /\ p.phase = a.phase
      /\ card.up /\ card.kind = "expected" =>
            /\ ~p.ok => ~p.open
            /\ ~Dead(a) => p.ok /\ ~Dead(p)
  BY <1>1, <1>2, ProbeCardRtd DEF Dead
<1>4. CASE ~p.ok /\ r = p
  BY <1>3, <1>4
<1>5. ASSUME p.ok, NEW q \in ReadAll(p), r = [q EXCEPT !.probed = q.ok]
      PROVE  /\ r \in Rtd /\ r.phase = a.phase
             /\ r.ok => r.age = 0
             /\ card.up => (~r.ok => ~r.open)
             /\ card.up /\ card.kind = "expected" /\ ~Dead(a) => r.ok /\ ~r.dead
  <2>1. q \in Rtd
    BY <1>3, <1>5, ReadAllRtd
  <2>2. /\ r \in Rtd /\ r.phase = q.phase /\ r.ok = q.ok /\ r.open = q.open
        /\ r.age = q.age /\ r.dead = q.dead
    BY <1>5, <2>1 DEF Rtd
  <2> QED
    BY <1>3, <1>5, <2>2, ReadAllRtd
<1> QED
  BY <1>1, <1>4, <1>5

(* What the ages are worth.  A value is as old as its age or younger, in the *)
(* cache and in the hands of the worker; the verdict of the last tick is at  *)
(* most one tick behind; and what a scalar sensor reports as working was     *)
(* published.                                                                *)
CacheYoung ==
  /\ \A i \in Channels : sample[i].age \in 0..Stale - 1 => seen[i] <= sample[i].age
  /\ rtd.phase = "seen" /\ rtd.ok =>
       \A i \in rtd.valid : rtd.age < Stale => seen[i] <= rtd.age

VerdictFresh ==
  sampleTempOk =>
    /\ Heated # {} /\ Heated \subseteq Channels
    /\ \A i \in Heated : seen[i] <= Stale /\ (ticked => seen[i] < Stale)

ScalarPublished == \A s \in Scalars : scalar[s].health = "ok" => scalar[s].cache.age >= 0

(* A card that failed a pass since it is up has no dead handle left.         *)
HeardSoon ==
  missed < 2 /\ (missed = 1 => card.up /\ card.kind = "expected" /\ ~Dead(rtd))

TempInv == TempTypeOK /\ CacheYoung /\ VerdictFresh /\ ScalarPublished /\ HeardSoon

LEMMA OlderAge ==
  ASSUME NEW age \in Ages
  PROVE  /\ Older(age) \in Ages
         /\ age >= 0 <=> Older(age) >= 0
         /\ Older(age) \in 0..Stale - 1 => age \in 0..Stale - 1 /\ Older(age) = age + 1
         /\ age \in 0..Stale => Older(age) \in 0..Stale
BY TemperatureAssumption DEF Older, Ages

LEMMA FreshTypes ==
  /\ FreshRtd \in Rtd /\ FreshRtd.phase = "wait" /\ FreshRtd.open = FALSE
  /\ NoValue \in Cache /\ NoValue.age = -1
  /\ FreshScalar \in Scalar /\ FreshScalar.health = "discovering"
BY TemperatureAssumption
DEF FreshRtd, Rtd, NoValue, Cache, Ages, FreshScalar, Scalar

LEMMA TempInitInv == TempInit => TempInv
<1> SUFFICES ASSUME TempInit PROVE TempInv
  OBVIOUS
<1>1. card \in Card
  <2>1. Channels \in SUBSET Channels
    OBVIOUS
  <2> QED
    BY <2>1 DEF TempInit, Card
<1>2. /\ rtd \in Rtd /\ sample \in [Channels -> Cache] /\ scalar \in [Scalars -> Scalar]
      /\ seen \in [Channels -> 0..Stale + 1]
  BY FreshTypes, TemperatureAssumption DEF TempInit
<1>3. TempTypeOK
  <2>2. sensorAt \in [Scalars -> Addresses \cup {0}]
    BY DEF TempInit
  <2>3. /\ rtdBusOk \in BOOLEAN /\ sampleTempOk \in BOOLEAN /\ i2cOk \in BOOLEAN
        /\ ticked \in BOOLEAN
        /\ rtdHealth \in {"discovering", "ok", "failed", "degraded", "stale"}
    BY Zenon DEF TempInit
  <2>4. missed \in 0..2
    BY DEF TempInit
  <2> QED
    BY <1>1, <1>2, <2>2, <2>3, <2>4 DEF TempTypeOK
<1>4. CacheYoung /\ VerdictFresh /\ ScalarPublished
  BY FreshTypes, TemperatureAssumption
  DEF TempInit, CacheYoung, VerdictFresh, ScalarPublished
<1>5. HeardSoon
  BY DEF TempInit, HeardSoon
<1> QED
  BY <1>3, <1>4, <1>5 DEF TempInv

(* What changes nothing but the card and the sensors.                        *)
LEMMA TempStill ==
  ASSUME TempInv, UNCHANGED tempVars
  PROVE  TempInv'
BY DEF TempInv, tempVars, TempTypeOK, CacheYoung, VerdictFresh, ScalarPublished, HeardSoon,
   Dead, Card, Rtd, Cache, Scalar, Ages

LEMMA RtdPassTemp ==
  ASSUME TempInv, RtdPass
  PROVE  TempInv'
<1>1. PICK r \in Converse(rtd) :
         /\ rtd' = [r EXCEPT !.phase = "seen"]
         /\ seen' = IF r.ok THEN [i \in Channels |-> IF i \in r.valid THEN 0 ELSE seen[i]]
                    ELSE seen
         /\ rtdBusOk' = r.ok
         /\ missed' = IF r.ok \/ ~card.up \/ card.kind # "expected" THEN 0
                      ELSE IF missed < 2 THEN missed + 1 ELSE missed
  BY DEF RtdPass
<1>2. /\ r \in Rtd /\ (r.ok => r.age = 0)
      /\ card.up /\ card.kind = "expected" =>
            (~r.ok => ~r.open) /\ (~Dead(rtd) => r.ok /\ ~r.dead)
  BY ConverseRtd DEF TempInv, TempTypeOK
<1>3. /\ rtd' \in Rtd /\ rtd'.ok = r.ok /\ rtd'.open = r.open /\ rtd'.dead = r.dead
      /\ rtd'.valid = r.valid /\ rtd'.age = r.age /\ r.valid \subseteq Channels
      /\ r.ok \in BOOLEAN
  BY <1>1, <1>2 DEF Rtd
<1>4. seen' \in [Channels -> 0..Stale + 1] /\ \A i \in Channels : seen'[i] <= seen[i]
  BY <1>1, TemperatureAssumption DEF TempInv, TempTypeOK
<1>5. HeardSoon' /\ missed' \in 0..2
  BY <1>1, <1>2, <1>3 DEF TempInv, TempTypeOK, HeardSoon, RtdPass, Dead
<1>6. TempTypeOK'
  BY <1>1, <1>3, <1>4, <1>5 DEF TempInv, TempTypeOK, RtdPass
<1>7. CacheYoung'
  <2>1. ASSUME NEW i \in Channels, sample[i].age \in 0..Stale - 1
        PROVE  seen'[i] <= sample[i].age
    BY <1>4, <2>1, TemperatureAssumption DEF TempInv, TempTypeOK, CacheYoung
  <2>2. ASSUME rtd'.ok, NEW i \in rtd'.valid
        PROVE  seen'[i] <= rtd'.age
    BY <1>1, <1>2, <1>3, <2>2
  <2> QED
    BY <2>1, <2>2 DEF CacheYoung, RtdPass
<1>8. VerdictFresh'
  BY <1>4, TemperatureAssumption DEF TempInv, TempTypeOK, VerdictFresh, RtdPass
<1>9. ScalarPublished'
  BY DEF TempInv, ScalarPublished, RtdPass
<1> QED
  BY <1>5, <1>6, <1>7, <1>8, <1>9 DEF TempInv

LEMMA RtdPublishTemp ==
  ASSUME TempInv, RtdPublish
  PROVE  TempInv'
<1> DEFINE good == IF rtd.ok THEN rtd.valid ELSE {}
           fell(i) == [sample[i] EXCEPT !.valid = FALSE]
<1>1. /\ sample' = [i \in Channels |-> IF i \in good THEN [valid |-> TRUE, age |-> rtd.age]
                                       ELSE fell(i)]
      /\ rtd' = [rtd EXCEPT !.phase = "wait", !.ok = FALSE, !.valid = {}, !.age = 0]
      /\ rtdHealth' = IF rtd.ok THEN RtdState(good)
                      ELSE FailedState({sample[i].age : i \in Channels})
      /\ sampleTempOk' = HeatedChannelsValid({i \in Channels : Usable(sample'[i])})
  BY DEF RtdPublish
<1>2. /\ sample \in [Channels -> Cache] /\ rtd \in Rtd /\ rtd.age \in 0..Stale
      /\ rtd.valid \subseteq Channels /\ rtd.phase = "seen"
  BY DEF TempInv, TempTypeOK, Rtd, RtdPublish
<1>3. \A i \in Channels : fell(i) \in Cache /\ fell(i).age = sample[i].age
  BY <1>2 DEF Cache
<1>4. \A i \in Channels : /\ sample'[i] \in Cache
                          /\ sample'[i].age = IF i \in good THEN rtd.age ELSE sample[i].age
  <2> SUFFICES ASSUME NEW i \in Channels
               PROVE  /\ sample'[i] \in Cache
                      /\ sample'[i].age = IF i \in good THEN rtd.age ELSE sample[i].age
    OBVIOUS
  <2>1. rtd.age \in Ages
    BY <1>2, TemperatureAssumption DEF Ages
  <2> HIDE DEF good, fell
  <2>2. CASE i \in good
    BY <1>1, <2>1, <2>2 DEF Cache
  <2>3. CASE i \notin good
    BY <1>1, <1>3, <2>3
  <2> QED
    BY <2>2, <2>3
<1>5. rtd' \in Rtd /\ rtd'.phase = "wait" /\ rtd'.open = rtd.open /\ rtd'.dead = rtd.dead
  <2>1. 0 \in 0..Stale
    BY TemperatureAssumption
  <2> QED
    BY <1>1, <1>2, <2>1 DEF Rtd
<1>6. sample' \in [Channels -> Cache]
  BY <1>1, <1>4
<1>7. rtdHealth' \in {"discovering", "ok", "failed", "degraded", "stale"}
      /\ sampleTempOk' \in BOOLEAN
  BY <1>1 DEF RtdState, FailedState, HeatedChannelsValid
<1>8. TempTypeOK'
  BY <1>5, <1>6, <1>7 DEF TempInv, TempTypeOK, RtdPublish
<1>9. \A i \in Channels : sample'[i].age \in 0..Stale - 1 => seen[i] <= sample'[i].age
  <2> SUFFICES ASSUME NEW i \in Channels, sample'[i].age \in 0..Stale - 1
               PROVE  seen[i] <= sample'[i].age
    OBVIOUS
  <2>1. CASE i \in good
    <3>1. rtd.ok /\ i \in rtd.valid
      BY <2>1
    <3>2. sample'[i].age = rtd.age
      BY <1>4, <2>1
    <3>3. rtd.age < Stale
      BY <1>2, <3>2, TemperatureAssumption
    <3> QED
      BY <1>2, <3>1, <3>2, <3>3 DEF TempInv, CacheYoung
  <2>2. CASE i \notin good
    <3>1. sample'[i].age = sample[i].age
      BY <1>4, <2>2
    <3> QED
      BY <3>1 DEF TempInv, CacheYoung
  <2> QED
    BY <2>1, <2>2
<1>10. CacheYoung'
  BY <1>5, <1>9 DEF CacheYoung, RtdPublish
<1>11. VerdictFresh'
  <2> SUFFICES ASSUME sampleTempOk'
               PROVE  /\ Heated # {} /\ Heated \subseteq Channels
                      /\ \A i \in Heated : seen[i] < Stale
    BY TemperatureAssumption DEF VerdictFresh, RtdPublish, TempInv, TempTypeOK
  <2>1. /\ Heated # {} /\ Heated \subseteq Channels
        /\ \A i \in Heated : Usable(sample'[i])
    BY <1>1 DEF HeatedChannelsValid
  <2> QED
    BY <1>9, <2>1, TemperatureAssumption DEF Usable, TempInv, TempTypeOK
<1>12. ScalarPublished' /\ HeardSoon'
  BY <1>5 DEF TempInv, ScalarPublished, HeardSoon, Dead, RtdPublish
<1> QED
  BY <1>8, <1>10, <1>11, <1>12 DEF TempInv

LEMMA CheckRtdTemp ==
  ASSUME TempInv, CheckRtd
  PROVE  TempInv'
<1>1. PICK p \in ProbeCard(rtd) : \E r \in (IF p.ok THEN ReadAll(p) ELSE {p}) :
         rtd' = [r EXCEPT !.probed = r.ok, !.ok = rtd.ok, !.valid = rtd.valid,
                          !.age = rtd.age]
  BY DEF CheckRtd
<1>2. PICK r \in (IF p.ok THEN ReadAll(p) ELSE {p}) :
         rtd' = [r EXCEPT !.probed = r.ok, !.ok = rtd.ok, !.valid = rtd.valid,
                          !.age = rtd.age]
  BY <1>1
<1>3. /\ p \in Rtd /\ p.phase = rtd.phase
      /\ card.up /\ card.kind = "expected" /\ ~Dead(rtd) => p.ok /\ ~Dead(p)
  BY ProbeCardRtd DEF TempInv, TempTypeOK, Dead
<1>4. /\ r \in Rtd /\ r.phase = rtd.phase
      /\ card.up /\ card.kind = "expected" /\ ~Dead(rtd) => ~r.dead
  BY <1>2, <1>3, ReadAllRtd DEF TempInv, TempTypeOK
<1>5. /\ rtd.ok \in BOOLEAN /\ rtd.valid \in SUBSET Channels /\ rtd.age \in 0..Stale
      /\ r.ok \in BOOLEAN
  BY <1>4 DEF TempInv, TempTypeOK, Rtd
<1>6. /\ rtd' \in Rtd /\ rtd'.phase = rtd.phase /\ rtd'.ok = rtd.ok
      /\ rtd'.valid = rtd.valid /\ rtd'.age = rtd.age /\ rtd'.dead = r.dead
  BY <1>2, <1>4, <1>5 DEF Rtd
<1>7. TempTypeOK'
  BY <1>6 DEF TempInv, TempTypeOK, CheckRtd
<1>8. CacheYoung'
  BY <1>6 DEF TempInv, CacheYoung, CheckRtd
<1>9. HeardSoon'
  BY <1>4, <1>6 DEF TempInv, HeardSoon, CheckRtd, Dead
<1>10. VerdictFresh' /\ ScalarPublished'
  BY DEF TempInv, VerdictFresh, ScalarPublished, CheckRtd
<1> QED
  BY <1>7, <1>8, <1>9, <1>10 DEF TempInv

(* A step that changes a scalar sensor and nothing else.                     *)
LEMMA ScalarTemp ==
  ASSUME TempInv, NEW s \in Scalars, NEW v \in Scalar, v.health = "ok" => v.cache.age >= 0,
         scalar' = [scalar EXCEPT ![s] = v],
         UNCHANGED <<card, rtd, rtdBusOk, rtdHealth, sample, sensorAt, sampleTempOk, i2cOk,
                     ticked, seen, missed>>
  PROVE  TempInv'
<1>1. scalar' \in [Scalars -> Scalar]
  BY DEF TempInv, TempTypeOK
<1>2. TempTypeOK'
  BY <1>1 DEF TempInv, TempTypeOK
<1>3. ScalarPublished'
  BY DEF TempInv, TempTypeOK, ScalarPublished
<1> QED
  BY <1>2, <1>3 DEF TempInv, CacheYoung, VerdictFresh, HeardSoon, Dead

LEMMA ScalarPassTemp ==
  ASSUME TempInv, NEW s \in Scalars, ScalarPass(s)
  PROVE  TempInv'
<1> DEFINE at == IF sensorAt[s] \in Candidates(s) THEN sensorAt[s] ELSE 0
           v == [scalar[s] EXCEPT !.phase = "seen", !.now = 0, !.found = at]
<1>1. scalar[s] \in Scalar /\ sensorAt[s] \in Addresses \cup {0}
  BY DEF TempInv, TempTypeOK
<1>2. at \in Addresses \cup {0, Configured} /\ 0 \in 0..Stale
  BY <1>1, TemperatureAssumption
<1>3. scalar' = [scalar EXCEPT ![s] = v]
  BY DEF ScalarPass
<1> HIDE DEF at
<1>4. v \in Scalar /\ v.health = scalar[s].health /\ v.cache = scalar[s].cache
  BY <1>1, <1>2 DEF Scalar
<1> HIDE DEF v
<1>5. v.health = "ok" => v.cache.age >= 0
  BY <1>4 DEF TempInv, ScalarPublished
<1> QED
  BY <1>3, <1>4, <1>5, ScalarTemp DEF ScalarPass

Publishes(a, p, r, f, n, c, h) ==
  [a EXCEPT !.phase = p, !.resolved = r, !.found = f, !.now = n, !.cache = c, !.health = h]

LEMMA PublishedScalar ==
  ASSUME NEW a \in Scalar, NEW p \in {"wait", "seen"},
         NEW r \in Addresses \cup {0, Configured}, NEW f \in Addresses \cup {0, Configured},
         NEW n \in 0..Stale, NEW c \in Cache,
         NEW h \in {"discovering", "ok", "failed", "degraded", "stale"}
  PROVE  Publishes(a, p, r, f, n, c, h) \in Scalar
BY DEF Scalar, Publishes

LEMMA ScalarPublishTemp ==
  ASSUME TempInv, NEW s \in Scalars, ScalarPublish(s)
  PROVE  TempInv'
<1> DEFINE old == scalar[s]
           fell == [old.cache EXCEPT !.valid = FALSE]
           c == IF old.found # 0 THEN [valid |-> TRUE, age |-> old.now] ELSE fell
           h == IF old.found # 0 THEN "ok" ELSE FailedState({old.cache.age})
           v == [old EXCEPT !.phase = "wait", !.resolved = old.found, !.found = 0, !.now = 0,
                            !.cache = c, !.health = h]
<1>1. /\ old \in Scalar /\ old.now \in 0..Stale /\ old.cache \in Cache
      /\ old.found \in Addresses \cup {0, Configured}
  BY DEF TempInv, TempTypeOK, Scalar
<1>2. scalar' = [scalar EXCEPT ![s] = v]
  BY DEF ScalarPublish
<1>3. c \in Cache /\ (old.found # 0 => c.age >= 0)
  <2>1. fell \in Cache
    <3>1. old.cache \in Cache
      BY <1>1
    <3> HIDE DEF old
    <3> QED
      BY <3>1 DEF Cache
  <2>2. old.now \in Ages /\ old.now >= 0
    BY <1>1, TemperatureAssumption DEF Ages
  <2> HIDE DEF old, fell
  <2>3. CASE old.found # 0
    BY <2>2, <2>3 DEF Cache
  <2>4. CASE old.found = 0
    BY <2>1, <2>4
  <2> QED
    BY <2>3, <2>4
<1>4. /\ h \in {"discovering", "ok", "failed", "degraded", "stale"}
      /\ h = "ok" => old.found # 0
  <2>1. FailedState({old.cache.age}) \in {"failed", "degraded", "stale"}
    BY DEF FailedState
  <2> QED
    BY <2>1
<1>5. 0 \in 0..Stale /\ 0 \in Addresses \cup {0, Configured}
  BY TemperatureAssumption
<1> HIDE DEF old, fell, c, h
<1>6. v \in Scalar /\ v.health = h /\ v.cache = c
  <2>1. v.health = h /\ v.cache = c
    BY <1>1 DEF Scalar
  <2>2. v \in Scalar
    <3> DEFINE p == "wait"
               r == old.found
               f == 0
               n == 0
    <3>1. /\ old \in Scalar /\ p \in {"wait", "seen"} /\ r \in Addresses \cup {0, Configured}
          /\ f \in Addresses \cup {0, Configured} /\ n \in 0..Stale /\ c \in Cache
          /\ h \in {"discovering", "ok", "failed", "degraded", "stale"}
      BY <1>1, <1>3, <1>4, <1>5
    <3> HIDE DEF p, r, f, n
    <3>2. Publishes(old, p, r, f, n, c, h) \in Scalar
      BY <3>1, PublishedScalar
    <3> QED
      BY <3>2 DEF p, r, f, n, Publishes
  <2> QED
    BY <2>1, <2>2
<1> HIDE DEF v
<1>7. v.health = "ok" => v.cache.age >= 0
  BY <1>3, <1>4, <1>6
<1>8. UNCHANGED <<card, rtd, rtdBusOk, rtdHealth, sample, sensorAt, sampleTempOk, i2cOk,
                  ticked, seen, missed>>
  BY DEF ScalarPublish
<1> QED
  BY <1>2, <1>6, <1>7, <1>8, ScalarTemp, Zenon

LEMMA ReadSnapshotTemp ==
  ASSUME TempInv, ReadSnapshot
  PROVE  TempInv'
<1>1. ticked' \in BOOLEAN /\ sampleTempOk' \in BOOLEAN /\ i2cOk' \in BOOLEAN
  BY Zenon DEF ReadSnapshot, HeatedChannelsValid, TempInv, TempTypeOK
<1>2. TempTypeOK'
  BY <1>1 DEF TempInv, TempTypeOK, ReadSnapshot
<1>3. VerdictFresh'
  <2> SUFFICES ASSUME sampleTempOk'
               PROVE  /\ Heated # {} /\ Heated \subseteq Channels
                      /\ \A i \in Heated : seen[i] < Stale
    BY TemperatureAssumption DEF VerdictFresh, ReadSnapshot, TempInv, TempTypeOK
  <2>1. /\ Heated # {} /\ Heated \subseteq Channels
        /\ \A i \in Heated : Usable(sample[i])
    BY DEF HeatedChannelsValid, ReadSnapshot, Valid
  <2> QED
    BY <2>1, TemperatureAssumption DEF Usable, TempInv, TempTypeOK, CacheYoung
<1> QED
  BY <1>2, <1>3 DEF TempInv, CacheYoung, ScalarPublished, HeardSoon, Dead, ReadSnapshot

(* A tick of time: no value is older than its age says, before and after.    *)
LEMMA AgedCache ==
  ASSUME NEW c \in Cache
  PROVE  /\ [c EXCEPT !.age = Older(c.age)] \in Cache
         /\ [c EXCEPT !.age = Older(c.age)].age = Older(c.age)
<1> DEFINE a == Older(c.age)
<1>1. a \in Ages
  BY OlderAge DEF Cache
<1> HIDE DEF a
<1>2. [c EXCEPT !.age = a] \in Cache /\ [c EXCEPT !.age = a].age = a
  BY <1>1 DEF Cache
<1> QED
  BY <1>2 DEF a

LEMMA ElapseScalar ==
  ASSUME TempInv, Elapse, NEW s \in Scalars
  PROVE  /\ scalar'[s] \in Scalar
         /\ scalar'[s].health = scalar[s].health
         /\ scalar'[s].cache.age = Older(scalar[s].cache.age)
<1> DEFINE n == IF scalar[s].phase = "wait" THEN 0 ELSE Older(scalar[s].now)
           c == [scalar[s].cache EXCEPT !.age = Older(scalar[s].cache.age)]
           w == [scalar[s] EXCEPT !.now = n, !.cache = c]
<1>1. scalar[s] \in Scalar /\ scalar[s].now \in 0..Stale /\ scalar[s].cache \in Cache
  BY DEF TempInv, TempTypeOK, Scalar
<1>2. n \in 0..Stale
  BY <1>1, TemperatureAssumption DEF Older
<1>3. c \in Cache /\ c.age = Older(scalar[s].cache.age)
  BY <1>1, AgedCache
<1>4. scalar'[s] = w
  BY DEF Elapse
<1> HIDE DEF n, c
<1>5. w \in Scalar /\ w.health = scalar[s].health /\ w.cache = c
  BY <1>1, <1>2, <1>3 DEF Scalar
<1> QED
  BY <1>3, <1>4, <1>5

LEMMA ElapseTemp ==
  ASSUME TempInv, Elapse
  PROVE  TempInv'
<1> DEFINE n == IF rtd.phase = "wait" THEN 0 ELSE Older(rtd.age)
<1>1. /\ card \in Card /\ rtd \in Rtd /\ rtd.age \in 0..Stale
      /\ sample \in [Channels -> Cache] /\ scalar \in [Scalars -> Scalar]
      /\ seen \in [Channels -> 0..Stale + 1]
      /\ \A i \in Channels : sample[i].age \in Ages
      /\ \A s \in Scalars : scalar[s].cache.age \in Ages
  BY DEF TempInv, TempTypeOK, Rtd, Cache, Scalar
<1>2. n \in 0..Stale /\ (n < Stale /\ rtd.phase = "seen" => rtd.age < Stale /\ n = rtd.age + 1)
  BY <1>1, TemperatureAssumption DEF Older
<1>3. rtd' = [rtd EXCEPT !.age = n]
  BY DEF Elapse
<1> HIDE DEF n
<1>4. /\ rtd' \in Rtd /\ rtd'.age = n /\ rtd'.phase = rtd.phase /\ rtd'.ok = rtd.ok
      /\ rtd'.valid = rtd.valid /\ rtd'.open = rtd.open /\ rtd'.dead = rtd.dead
  BY <1>1, <1>2, <1>3 DEF Rtd
<1>5. \A i \in Channels : sample'[i] \in Cache /\ sample'[i].age = Older(sample[i].age)
  BY <1>1, AgedCache DEF Elapse
<1>6. sample' \in [Channels -> Cache]
  BY <1>5 DEF Elapse
<1>7. scalar' \in [Scalars -> Scalar]
  BY ElapseScalar DEF Elapse
<1>8. /\ seen' \in [Channels -> 0..Stale + 1]
      /\ \A i \in Channels : seen'[i] <= seen[i] + 1
  <2> DEFINE next(i) == IF seen[i] <= Stale THEN seen[i] + 1 ELSE seen[i]
  <2>1. \A i \in Channels : next(i) \in 0..Stale + 1 /\ next(i) <= seen[i] + 1
    BY <1>1, TemperatureAssumption
  <2>2. seen' = [i \in Channels |-> next(i)]
    BY DEF Elapse
  <2> HIDE DEF next
  <2> QED
    BY <2>1, <2>2
<1>9. TempTypeOK'
  <2>1. ticked' \in BOOLEAN
    BY Zenon DEF Elapse
  <2> QED
    BY <1>4, <1>6, <1>7, <1>8, <2>1 DEF TempInv, TempTypeOK, Elapse
<1>10. CacheYoung'
  <2>1. ASSUME NEW i \in Channels, sample'[i].age \in 0..Stale - 1
        PROVE  seen'[i] <= sample'[i].age
    <3>1. sample[i].age \in 0..Stale - 1 /\ sample'[i].age = sample[i].age + 1
      BY <1>1, <1>5, <2>1, OlderAge
    <3>2. seen[i] <= sample[i].age
      BY <3>1 DEF TempInv, CacheYoung
    <3> QED
      BY <1>1, <1>8, <3>1, <3>2, TemperatureAssumption
  <2>2. ASSUME rtd'.phase = "seen", rtd'.ok, NEW i \in rtd'.valid, rtd'.age < Stale
        PROVE  seen'[i] <= rtd'.age
    <3>1. rtd.age < Stale /\ rtd'.age = rtd.age + 1
      BY <1>2, <1>4, <2>2
    <3>2. seen[i] <= rtd.age /\ i \in Channels
      BY <1>1, <1>4, <2>2, <3>1 DEF TempInv, CacheYoung, Rtd
    <3> QED
      BY <1>1, <1>8, <3>1, <3>2, TemperatureAssumption
  <2> QED
    BY <2>1, <2>2 DEF CacheYoung
<1>11. VerdictFresh'
  <2> SUFFICES ASSUME sampleTempOk
               PROVE  /\ Heated # {} /\ Heated \subseteq Channels
                      /\ \A i \in Heated : seen'[i] <= Stale
    BY DEF VerdictFresh, Elapse
  <2>1. /\ Heated # {} /\ Heated \subseteq Channels
        /\ \A i \in Heated : seen[i] < Stale
    BY DEF TempInv, VerdictFresh, Elapse
  <2> QED
    BY <1>1, <1>8, <2>1, TemperatureAssumption
<1>12. ScalarPublished'
  <2> SUFFICES ASSUME NEW s \in Scalars, scalar'[s].health = "ok"
               PROVE  scalar'[s].cache.age >= 0
    BY DEF ScalarPublished
  <2>1. scalar[s].cache.age >= 0
    BY ElapseScalar DEF TempInv, ScalarPublished
  <2> QED
    BY <1>1, <2>1, ElapseScalar, OlderAge
<1>13. HeardSoon'
  BY <1>4 DEF TempInv, HeardSoon, Dead, Elapse
<1> QED
  BY <1>9, <1>10, <1>11, <1>12, <1>13 DEF TempInv

LEMMA KillTemp ==
  ASSUME TempInv, KillTemps
  PROVE  TempInv'
<1>1. /\ rtd' \in Rtd /\ sample' \in [Channels -> Cache] /\ scalar' \in [Scalars -> Scalar]
  BY FreshTypes DEF KillTemps
<1>2. /\ rtdBusOk' \in BOOLEAN /\ sampleTempOk' \in BOOLEAN /\ i2cOk' \in BOOLEAN
      /\ rtdHealth' \in {"discovering", "ok", "failed", "degraded", "stale"}
  BY Zenon DEF KillTemps
<1>3. missed' \in 0..2
  BY DEF KillTemps
<1>4. TempTypeOK'
  BY <1>1, <1>2, <1>3 DEF TempInv, TempTypeOK, KillTemps
<1>5. CacheYoung' /\ VerdictFresh' /\ ScalarPublished'
  BY FreshTypes, TemperatureAssumption
  DEF KillTemps, CacheYoung, VerdictFresh, ScalarPublished
<1>6. HeardSoon'
  BY DEF KillTemps, HeardSoon
<1> QED
  BY <1>4, <1>5, <1>6 DEF TempInv

LEMMA TroubleTemp ==
  ASSUME TempInv,
         \/ CardDown \/ CardUp \/ \E i \in Channels : ProbeChanges(i)
         \/ \E s \in Scalars, at \in Addresses \cup {0} : SensorMoves(s, at)
  PROVE  TempInv'
<1> USE DEF SensorsOnly
<1>1. card \in Card /\ rtd \in Rtd
  BY DEF TempInv, TempTypeOK
<1>2. CASE CardDown
  <2>1. card' \in Card
    BY <1>1, <1>2 DEF CardDown, Card
  <2>2. /\ rtd' \in Rtd /\ rtd'.phase = rtd.phase /\ rtd'.ok = rtd.ok
        /\ rtd'.valid = rtd.valid /\ rtd'.age = rtd.age
    BY <1>1, <1>2 DEF CardDown, Rtd
  <2>3. missed' = 0
    BY <1>2 DEF CardDown
  <2>4. TempTypeOK'
    BY <1>2, <2>1, <2>2, <2>3 DEF TempInv, TempTypeOK, CardDown
  <2>5. CacheYoung'
    BY <1>2, <2>2 DEF TempInv, CacheYoung, CardDown
  <2>6. VerdictFresh' /\ ScalarPublished' /\ HeardSoon'
    BY <1>2, <2>3 DEF TempInv, VerdictFresh, ScalarPublished, HeardSoon, CardDown
  <2> QED
    BY <2>4, <2>5, <2>6 DEF TempInv
<1>3. CASE CardUp
  <2>1. card' \in Card /\ card'.kind = card.kind
    BY <1>1, <1>3 DEF CardUp, Card
  <2>2. TempTypeOK'
    BY <1>3, <2>1 DEF TempInv, TempTypeOK, CardUp
  <2> QED
    BY <1>3, <2>2
    DEF TempInv, CacheYoung, VerdictFresh, ScalarPublished, HeardSoon, Dead, CardUp
<1>4. ASSUME NEW i \in Channels, ProbeChanges(i) PROVE TempInv'
  <2> DEFINE S == IF i \in card.sound THEN card.sound \ {i} ELSE card.sound \cup {i}
  <2>1. S \in SUBSET Channels
    BY <1>1 DEF Card
  <2>2. card' = [card EXCEPT !.sound = S]
    BY <1>4 DEF ProbeChanges
  <2> HIDE DEF S
  <2>3. card' \in Card /\ card'.up = card.up /\ card'.kind = card.kind
    BY <1>1, <2>1, <2>2 DEF Card
  <2>4. TempTypeOK'
    BY <1>4, <2>3 DEF TempInv, TempTypeOK, ProbeChanges
  <2> QED
    BY <1>4, <2>3, <2>4
    DEF TempInv, CacheYoung, VerdictFresh, ScalarPublished, HeardSoon, Dead, ProbeChanges
<1>5. ASSUME NEW s \in Scalars, NEW at \in Addresses \cup {0}, SensorMoves(s, at)
      PROVE  TempInv'
  BY <1>5 DEF TempInv, TempTypeOK, CacheYoung, VerdictFresh, ScalarPublished, HeardSoon,
     Dead, SensorMoves
<1> QED
  BY <1>2, <1>3, <1>4, <1>5

LEMMA NextTemp == TempInv /\ [Next]_vars => TempInv'
<1> SUFFICES ASSUME TempInv, [Next]_vars PROVE TempInv'
  OBVIOUS
<1>1. CASE UNCHANGED tempVars
  BY <1>1, TempStill
<1>2. CASE PollRtd \/ PublishRtd \/ CheckSequent \/ CardRepair
  BY <1>2, RtdPassTemp, RtdPublishTemp, CheckRtdTemp, TroubleTemp
  DEF PollRtd, PublishRtd, CheckSequent, CardRepair
<1>3. CASE \E s \in Scalars : PollScalar(s)
  BY <1>3, ScalarPassTemp, ScalarPublishTemp DEF PollScalar
<1>4. CASE Snapshot \/ TimePasses \/ Kill \/ TempTrouble
  BY <1>4, ReadSnapshotTemp, ElapseTemp, KillTemp, TroubleTemp
  DEF Snapshot, TimePasses, Kill, TempTrouble
<1>5. CASE PollClicks \/ PublishMax31865 \/ CheckMax31865 \/ ClickTrouble \/ ClickRepair
  BY <1>1, <1>5 DEF PollClicks, PublishMax31865, CheckMax31865, ClickTrouble, ClickRepair,
     ClicksOnly
<1>6. CASE UNCHANGED vars
  BY <1>1, <1>6 DEF vars
<1> QED
  BY <1>2, <1>3, <1>4, <1>5, <1>6 DEF Next

(* The types, the ages and the handle of the card after every pass,          *)
(* publication, CHECK, tick of time, trouble and kill.                       *)
THEOREM TempInvariant == Spec => []TempInv
<1>1. Init => TempInv
  BY TempInitInv DEF Init
<1> QED
  BY <1>1, NextTemp, PTL DEF Spec

(* Whatever the pace of the workers, however long one hangs and whoever else *)
(* talks to the card, what a snapshot gives as valid is younger than         *)
(* stale_after, TEMP_OK is at most a tick late, and a scalar sensor reported *)
(* as working has such a value (SensorManager::ReadSnapshot).                *)
THEOREM FreshSafe == Spec => []FreshValues
<1>1. TempInv => FreshValues
  <2> SUFFICES ASSUME TempInv PROVE FreshValues
    OBVIOUS
  <2>1. \A i \in Channels : Valid(i) => seen[i] < Stale
    BY TemperatureAssumption DEF TempInv, TempTypeOK, CacheYoung, Valid, Usable
  <2>2. sampleTempOk => Heated # {} /\ \A i \in Heated : i \in Channels /\ seen[i] <= Stale
    BY DEF TempInv, VerdictFresh
  <2>3. \A s \in Scalars : SnapshotHealth(s) = "ok" => Usable(scalar[s].cache)
    <3>1. \A s \in Scalars : scalar[s].cache.age \in Ages
      BY DEF TempInv, TempTypeOK, Scalar, Cache
    <3> QED
      BY <3>1 DEF TempInv, ScalarPublished, SnapshotHealth, Ages
  <2> QED
    BY <2>1, <2>2, <2>3 DEF FreshValues
<1> QED
  BY <1>1, TempInvariant, PTL

(* A card that is back is read at the second pass at the latest, also when a *)
(* CHECK came in between (SequentRtdAdapter::EnsureOpen).                    *)
THEOREM BackSafe == Spec => []BackInTwo
<1>1. TempInv => BackInTwo
  BY DEF TempInv, HeardSoon, BackInTwo
<1> QED
  BY <1>1, TempInvariant, PTL

-----------------------------------------------------------------------------
(* What the click measures.  A code that is older than the conversation is   *)
(* about to be overwritten when it is read: the conversion that the one-shot *)
(* asked for is pending and the bias on, unless the click was gone meanwhile *)
(* and has no code at all.                                                   *)
Powered(c) == ~c.there => c.register = "zero"
Due(c) == c.register = "sound" /\ ~c.fresh => c.pending /\ c.bias

Measured ==
  /\ \A k \in Clicks : Powered(chip[k])
  /\ conv.step = "read" => Due(chip[conv.click])
  /\ NoFalseOhms

LEMMA WriteConfigKeeps ==
  ASSUME NEW c \in Chip, NEW bias \in BOOLEAN, NEW shot \in BOOLEAN
  PROVE  /\ WriteConfig(c, bias, shot).register = c.register
         /\ WriteConfig(c, bias, shot).pending = (c.pending \/ shot)
<1>1. (c.pending \/ shot) \in BOOLEAN
  BY DEF Chip
<1> QED
  BY <1>1 DEF WriteConfig, Chip

LEMMA ReadConverted ==
  ASSUME NEW c \in Chip, Due(c), Powered(c), ~c.there => ~c.bias,
         NEW code \in Read(Converted(c))
  PROVE  code # "old" /\ Powered(Converted(c))
<1>1. CASE c.pending /\ c.bias
  <2> DEFINE d == [c EXCEPT !.pending = FALSE, !.register = c.specimen, !.fresh = TRUE]
  <2>1. /\ d.register \in {"sound", "range"} /\ d.fresh = TRUE /\ d.there = TRUE
        /\ Converted(c) = d
    BY <1>1 DEF Chip, Converted
  <2> HIDE DEF d
  <2> QED
    BY <2>1 DEF Read, Powered
<1>2. CASE ~(c.pending /\ c.bias)
  <2>1. Converted(c) = c /\ ~(c.register = "sound" /\ ~c.fresh)
    BY <1>2 DEF Converted, Due
  <2> QED
    BY <2>1 DEF Read, Chip
<1> QED
  BY <1>1, <1>2

LEMMA TransferPowered ==
  ASSUME Inv, Measured, NEW k \in Clicks, NEW after \in Chip, NEW ok \in BOOLEAN,
         after.there = chip[k].there, Transfer(k, after, ok)
  PROVE  /\ \A j \in Clicks : Powered(chip'[j])
         /\ ok => chip'[k] = IF chip[k].there THEN after ELSE chip[k]
<1>1. \/ chip' = [chip EXCEPT ![k] = IF chip[k].there THEN after ELSE chip[k]]
      \/ ~ok /\ chip' = chip
  BY DEF Transfer
<1>2. chip \in [Clicks -> Chip] /\ \A j \in Clicks : Powered(chip[j])
  BY DEF Inv, Typed, Measured
<1> QED
  BY <1>1, <1>2 DEF Powered

LEMMA BiasOffTryPowered ==
  ASSUME Inv, Measured, NEW k \in Clicks, NEW c \in Chip, BiasOffTry(k, c),
         c.there = chip[k].there
  PROVE  \A j \in Clicks : Powered(chip'[j])
<1>1. chip \in [Clicks -> Chip] /\ \A j \in Clicks : Powered(chip[j])
  BY DEF Inv, Typed, Measured
<1>2. PICK d \in {WriteConfig(c, FALSE, FALSE), c} :
        chip' = [chip EXCEPT ![k] = IF chip[k].there THEN d ELSE chip[k]]
  BY DEF BiasOffTry
<1>3. d.there = c.there
  BY WriteConfigChip
<1> QED
  BY <1>1, <1>2, <1>3 DEF Powered

LEMMA EndedMeasured ==
  ASSUME Inv, Measured, conv.who # "nobody", NEW outcome, outcome # "old", Ended(outcome),
         \A j \in Clicks : Powered(chip'[j])
  PROVE  Measured'
<1>1. conv \in Conv /\ result \in Results /\ conv.who \in Who /\ conv.click \in Clicks
  BY DEF Inv, Typed, Conv
<1>2. conv'.step = "probe"
  <2>1. CASE conv.click = 1
    <3>1. conv' = [conv EXCEPT !.click = 2, !.step = "probe"]
      BY <2>1 DEF Ended
    <3> QED
      BY <1>1, <3>1 DEF Conv
  <2>2. CASE conv.click # 1
    BY <2>2 DEF Ended
  <2> QED
    BY <2>1, <2>2
<1>3. NoFalseOhms'
  <2>1. result' = [result EXCEPT ![conv.who][conv.click] = outcome]
    BY DEF Ended
  <2> QED
    BY <1>1, <2>1 DEF Measured, NoFalseOhms, Results
<1> QED
  BY <1>2, <1>3 DEF Measured

LEMMA GoesMeasured ==
  ASSUME Inv, Measured, NEW step, step # "read", Goes(step),
         \A j \in Clicks : Powered(chip'[j])
  PROVE  Measured'
<1>1. conv'.step = step /\ result' = result
  BY DEF Inv, Typed, Conv, Goes
<1> QED
  BY <1>1 DEF Measured, NoFalseOhms

LEMMA FailedMeasured ==
  ASSUME Inv, Measured, conv.who # "nobody", Failed, \A j \in Clicks : Powered(chip'[j])
  PROVE  Measured'
BY EndedMeasured DEF Failed

LEMMA ClickIoMeasured ==
  ASSUME Inv, Measured, ClickIo
  PROVE  Measured'
<1> DEFINE k == conv.click
<1>1. ASSUME NEW step, Speaks(step)
      PROVE  conv.who # "nobody" /\ k \in Clicks /\ chip[k] \in Chip /\ conv.step = step
  BY <1>1, SpeaksFacts
<1>2. CASE ProbeClick
  <2> DEFINE fresh == [chip[k] EXCEPT !.fresh = FALSE]
             after == WriteConfig(fresh, FALSE, FALSE)
  <2>1. Speaks("probe")
    BY <1>2 DEF ProbeClick
  <2>2. after \in Chip /\ after.there = chip[k].there
    <3>1. chip[k] \in Chip
      BY <1>1, <2>1
    <3>2. fresh \in Chip /\ fresh.there = chip[k].there
      BY <3>1, FreshChip
    <3> HIDE DEF fresh
    <3> QED
      BY <3>2, WriteConfigChip
  <2>3. \/ Ended("failed") /\ UNCHANGED chip
        \/ \E ok \in BOOLEAN : Transfer(k, after, ok) /\ (Goes("readback") \/ Failed)
    BY <1>2 DEF ProbeClick
  <2> HIDE DEF after
  <2>4. \A j \in Clicks : Powered(chip'[j])
    BY <1>1, <2>1, <2>2, <2>3, TransferPowered DEF Measured
  <2> QED
    BY <1>1, <2>1, <2>3, <2>4, EndedMeasured, GoesMeasured, FailedMeasured
<1>3. CASE Readback
  <2>1. Speaks("readback")
    BY <1>3 DEF Readback
  <2>2. \E ok \in BOOLEAN : Transfer(k, chip[k], ok) /\ (Failed \/ Goes("bias") \/ Ended("absent"))
    BY <1>3 DEF Readback
  <2>3. \A j \in Clicks : Powered(chip'[j])
    BY <1>1, <2>1, <2>2, TransferPowered
  <2> QED
    BY <1>1, <2>1, <2>2, <2>3, EndedMeasured, GoesMeasured, FailedMeasured
<1>4. CASE BiasOn
  <2> DEFINE after == WriteConfig(chip[k], TRUE, FALSE)
  <2>1. Speaks("bias")
    BY <1>4 DEF BiasOn
  <2>2. after \in Chip /\ after.there = chip[k].there
    BY <1>1, <2>1, WriteConfigChip
  <2>3. \E ok \in BOOLEAN : Transfer(k, after, ok) /\ (Goes("shot") \/ Failed)
    BY <1>4 DEF BiasOn
  <2> HIDE DEF after
  <2>4. \A j \in Clicks : Powered(chip'[j])
    BY <1>1, <2>1, <2>2, <2>3, TransferPowered
  <2> QED
    BY <1>1, <2>1, <2>3, <2>4, GoesMeasured, FailedMeasured
<1>5. CASE OneShot
  <2> DEFINE due == WriteConfig(chip[k], TRUE, TRUE)
  <2>1. Speaks("shot")
    BY <1>5 DEF OneShot
  <2>2. /\ due \in Chip /\ due.there = chip[k].there /\ due.bias = TRUE
        /\ due.pending = TRUE
    BY <1>1, <2>1, WriteConfigChip, WriteConfigKeeps
  <2>3. PICK ok \in BOOLEAN :
          IF ~ok THEN (BiasOffTry(k, due) \/ BiasOffTry(k, chip[k])) /\ Failed
          ELSE Transfer(k, due, ok) /\ Goes("read")
    BY <1>5 DEF OneShot
  <2> HIDE DEF due
  <2>4. \A j \in Clicks : Powered(chip'[j])
    BY <1>1, <2>1, <2>2, <2>3, TransferPowered, BiasOffTryPowered
  <2>5. CASE ~ok
    BY <1>1, <2>1, <2>3, <2>4, <2>5, FailedMeasured
  <2>6. CASE ok
    <3>1. chip'[k] = IF chip[k].there THEN due ELSE chip[k]
      BY <1>1, <2>1, <2>2, <2>3, <2>6, TransferPowered
    <3>2. Due(chip'[k])
      BY <1>1, <2>1, <2>2, <3>1 DEF Due, Measured, Powered
    <3>3. conv'.click = k /\ result' = result
      BY <2>3, <2>6 DEF Inv, Typed, Conv, Goes
    <3> QED
      BY <2>4, <3>2, <3>3 DEF Measured, NoFalseOhms
  <2> QED
    BY <2>5, <2>6
<1>6. CASE ReadCode
  <2> DEFINE done == Converted(chip[k])
  <2>1. Speaks("read")
    BY <1>6 DEF ReadCode
  <2>2. done \in Chip /\ done.there = chip[k].there
    BY <1>1, <2>1, ConvertedChip
  <2>3. Due(chip[k]) /\ Powered(chip[k]) /\ (~chip[k].there => ~chip[k].bias)
    BY <1>1, <2>1 DEF Measured, Inv, BiasWhere
  <2>4. \/ /\ chip' = [chip EXCEPT ![k] = done]
           /\ \E code \in Read(done) : result' = [result EXCEPT ![conv.who][k] = code]
           /\ conv' = [conv EXCEPT !.step = "off"]
        \/ BiasOffTry(k, done) /\ Failed
    BY <1>6 DEF ReadCode
  <2>5. \A code \in Read(done) : code # "old" /\ Powered(done)
    BY <1>1, <2>1, <2>3, ReadConverted
  <2> HIDE DEF done
  <2>6. CASE BiasOffTry(k, done) /\ Failed
    BY <1>1, <2>1, <2>2, <2>6, BiasOffTryPowered, FailedMeasured
  <2>7. ASSUME chip' = [chip EXCEPT ![k] = done], NEW code \in Read(done),
               result' = [result EXCEPT ![conv.who][k] = code],
               conv' = [conv EXCEPT !.step = "off"]
        PROVE  Measured'
    <3>1. \A j \in Clicks : Powered(chip'[j])
      BY <1>1, <2>1, <2>5, <2>7 DEF Measured, Inv, Typed
    <3>2. conv'.step = "off"
      BY <2>7 DEF Inv, Typed, Conv
    <3>3. NoFalseOhms'
      BY <1>1, <2>1, <2>5, <2>7 DEF Measured, NoFalseOhms, Inv, Typed, Results
    <3> QED
      BY <3>1, <3>2, <3>3 DEF Measured
  <2> QED
    BY <2>4, <2>6, <2>7
<1>7. CASE BiasOff
  <2> DEFINE after == WriteConfig(chip[k], FALSE, FALSE)
             read == result[conv.who][k]
  <2>1. Speaks("off")
    BY <1>7 DEF BiasOff
  <2>2. after \in Chip /\ after.there = chip[k].there
    BY <1>1, <2>1, WriteConfigChip
  <2>3. \E ok \in BOOLEAN : Transfer(k, after, ok) /\ (Failed \/ Goes("clear") \/ Ended(read))
    BY <1>7 DEF BiasOff
  <2>4. read # "old"
    BY <1>1, <2>1, SpeaksFacts DEF Measured, NoFalseOhms
  <2> HIDE DEF after, read
  <2>5. \A j \in Clicks : Powered(chip'[j])
    BY <1>1, <2>1, <2>2, <2>3, TransferPowered
  <2> QED
    BY <1>1, <2>1, <2>3, <2>4, <2>5, EndedMeasured, GoesMeasured, FailedMeasured
<1>8. CASE ClearFault
  <2> DEFINE after == ClearsFault(chip[k])
  <2>1. Speaks("clear")
    BY <1>8 DEF ClearFault
  <2>2. after \in Chip /\ after.there = chip[k].there
    BY <1>1, <2>1, WriteConfigChip DEF ClearsFault
  <2>3. \E ok \in BOOLEAN : Transfer(k, after, ok) /\ Ended("range")
    BY <1>8 DEF ClearFault
  <2> HIDE DEF after
  <2>4. \A j \in Clicks : Powered(chip'[j])
    BY <1>1, <2>1, <2>2, <2>3, TransferPowered
  <2> QED
    BY <1>1, <2>1, <2>3, <2>4, EndedMeasured
<1> QED
  BY <1>2, <1>3, <1>4, <1>5, <1>6, <1>7, <1>8 DEF ClickIo

LEMMA StillMeasured ==
  ASSUME Inv, Measured, UNCHANGED chip, conv' = conv \/ conv'.step = "probe",
         \A w \in Who, k \in Clicks : result'[w][k] \in {result[w][k], "none"}
  PROVE  Measured'
BY DEF Measured, NoFalseOhms

LEMMA ChipMeasured ==
  ASSUME Inv, Measured, NEW k \in Clicks, NEW c \in Chip, ChipOnly,
         chip' = [chip EXCEPT ![k] = c], Powered(c), Due(chip[k]) => Due(c)
  PROVE  Measured'
<1>1. chip \in [Clicks -> Chip] /\ UNCHANGED <<conv, result>>
  BY DEF Inv, Typed, ChipOnly
<1> QED
  BY <1>1 DEF Measured, NoFalseOhms

LEMMA HardwareMeasured ==
  ASSUME Inv, Measured, NEW k \in Clicks,
         Converts(k) \/ Vanishes(k) \/ Returns(k) \/ SpecimenChanges(k)
  PROVE  Measured'
<1>1. /\ chip[k] \in Chip /\ (~chip[k].there => ~chip[k].bias) /\ Powered(chip[k])
      /\ chip \in [Clicks -> Chip]
  BY DEF Inv, Typed, BiasWhere, Measured
<1>2. CASE Converts(k)
  <2> DEFINE c == [chip[k] EXCEPT !.pending = FALSE, !.register = chip[k].specimen,
                                  !.fresh = TRUE]
  <2>1. ChipOnly /\ chip' = [chip EXCEPT ![k] = c] /\ chip[k].bias
    BY <1>2 DEF Converts, Converted
  <2>2. c \in Chip /\ c.fresh = TRUE /\ c.there = chip[k].there
    BY <1>1 DEF Chip
  <2>3. chip[k].there
    BY <1>1, <2>1
  <2> HIDE DEF c
  <2>4. Powered(c) /\ Due(c)
    BY <2>2, <2>3 DEF Powered, Due
  <2> QED
    BY <2>1, <2>2, <2>4, ChipMeasured
<1>3. CASE Vanishes(k)
  <2> DEFINE c == [PowerOn(chip[k]) EXCEPT !.there = FALSE]
  <2>1. ChipOnly /\ chip' = [chip EXCEPT ![k] = c]
    BY <1>3 DEF Vanishes
  <2>2. c \in Chip /\ c.register = "zero"
    BY <1>1 DEF PowerOn, Chip
  <2> HIDE DEF c
  <2>3. Powered(c) /\ Due(c)
    BY <2>2 DEF Powered, Due
  <2> QED
    BY <2>1, <2>2, <2>3, ChipMeasured
<1>4. CASE Returns(k)
  <2> DEFINE c == [chip[k] EXCEPT !.there = TRUE]
  <2>1. ChipOnly /\ chip' = [chip EXCEPT ![k] = c] /\ ~chip[k].there
    BY <1>1, <1>4 DEF Returns
  <2>2. c \in Chip /\ c.register = chip[k].register /\ c.there = TRUE
    BY <1>1 DEF Chip
  <2> HIDE DEF c
  <2>3. Powered(c) /\ Due(c)
    BY <1>1, <2>1, <2>2 DEF Powered, Due
  <2> QED
    BY <2>1, <2>2, <2>3, ChipMeasured
<1>5. CASE SpecimenChanges(k)
  <2> DEFINE c == [chip[k] EXCEPT !.specimen =
                      IF chip[k].specimen = "sound" THEN "range" ELSE "sound"]
  <2>1. ChipOnly /\ chip' = [chip EXCEPT ![k] = c]
    BY <1>1, <1>5 DEF SpecimenChanges
  <2>2. /\ c \in Chip /\ c.bias = chip[k].bias /\ c.there = chip[k].there
        /\ c.register = chip[k].register /\ c.fresh = chip[k].fresh
        /\ c.pending = chip[k].pending
    BY <1>1 DEF Chip
  <2> HIDE DEF c
  <2>3. Powered(c) /\ (Due(chip[k]) => Due(c))
    BY <1>1, <2>2 DEF Powered, Due
  <2> QED
    BY <2>1, <2>2, <2>3, ChipMeasured
<1> QED
  BY <1>2, <1>3, <1>4, <1>5

LEMMA UpdateMeasured ==
  ASSUME Inv, Measured, NEW w \in Who, UpdateClickHealth(w), UNCHANGED <<chip, conv>>
  PROVE  Measured'
<1>1. result' = [result EXCEPT ![w] = [k \in Clicks |-> "none"]] /\ result \in Results
  BY DEF UpdateClickHealth, Inv, Typed
<1>2. \A v \in Who, k \in Clicks : result'[v][k] \in {result[v][k], "none"}
  BY <1>1 DEF Results
<1> QED
  BY <1>2, StillMeasured

LEMMA KillMeasured ==
  ASSUME Inv, Measured, KillClicks
  PROVE  Measured'
<1>1. UNCHANGED chip /\ conv'.step = "probe"
  BY DEF KillClicks
<1>2. \A w \in Who, k \in Clicks : result'[w][k] = "none"
  BY DEF KillClicks
<1> QED
  BY <1>1, <1>2, StillMeasured

LEMMA BeginMeasured ==
  ASSUME Inv, Measured, NEW w \in Who, Begin(w)
  PROVE  Measured'
<1>1. UNCHANGED <<chip, result>> /\ conv'.step = "probe"
  BY DEF Begin
<1> QED
  BY <1>1, StillMeasured

LEMMA InitMeasured == Init => Measured
<1> SUFFICES ASSUME Init PROVE Measured
  OBVIOUS
<1>1. \A k \in Clicks : Powered(chip[k])
  <2> SUFFICES ASSUME NEW k \in Clicks PROVE chip[k].register = "zero"
    BY DEF Powered
  <2>1. PICK t \in BOOLEAN :
          chip[k] = [there |-> t, cfg |-> FALSE, bias |-> FALSE, pending |-> FALSE,
                     register |-> "zero", fresh |-> FALSE, specimen |-> "sound"]
    BY DEF Init, ClicksInit
  <2> QED
    BY <2>1
<1>2. conv.step = "probe" /\ \A w \in Who, k \in Clicks : result[w][k] = "none"
  BY DEF Init, ClicksInit
<1> QED
  BY <1>1, <1>2 DEF Measured, NoFalseOhms

LEMMA NextMeasured == Inv /\ Measured /\ [Next]_vars => Measured'
<1> SUFFICES ASSUME Inv, Measured, [Next]_vars PROVE Measured'
  OBVIOUS
<1>1. CASE UNCHANGED <<chip, conv, result>>
  BY <1>1, StillMeasured
<1>2. CASE UNCHANGED clickVars
  BY <1>1, <1>2 DEF clickVars
<1>3. CASE PollRtd \/ PublishRtd \/ CheckSequent \/ CardRepair
  BY <1>2, <1>3 DEF PollRtd, PublishRtd, CheckSequent, CardRepair, RtdOnly
<1>4. CASE (\E s \in Scalars : PollScalar(s)) \/ Snapshot \/ TimePasses \/ TempTrouble
  BY <1>2, <1>4 DEF PollScalar, Snapshot, TimePasses, TempTrouble
<1>5. CASE PollClicks
  BY <1>1, <1>5, ClickIoMeasured, BeginMeasured, HardwareMeasured
  DEF PollClicks, StoreBusOk, Who
<1>6. CASE PublishMax31865 \/ CheckMax31865
  BY <1>6, UpdateMeasured, BeginMeasured
  DEF PublishMax31865, CheckMax31865, PublishClicks, PublishCheck, Who
<1>7. CASE Kill
  BY <1>7, KillMeasured DEF Kill
<1>8. CASE ClickTrouble \/ ClickRepair
  BY <1>1, <1>8, HardwareMeasured DEF ClickTrouble, ClickRepair, SpiFails, SpiBack
<1>9. CASE UNCHANGED vars
  BY <1>2, <1>9 DEF vars
<1> QED
  BY <1>3, <1>4, <1>5, <1>6, <1>7, <1>8, <1>9 DEF Next

-----------------------------------------------------------------------------
(* The rest of the state: the phases of the threads, the configuration, and  *)
(* the ohms, which only the source of the configuration writes.              *)
ClickRest ==
  /\ phase \in [Who -> {"wait", "io", "seen", "publish"}]
  /\ clicksBusOk \in BOOLEAN /\ spiUp \in BOOLEAN
  /\ clickHealth \in [Clicks -> {"discovering", "ok", "range", "failed", "lost"}]

LEMMA ClickIoPhase ==
  ASSUME Inv, ClickIo
  PROVE  /\ UNCHANGED <<clicksBusOk, clickHealth, spiUp>>
         /\ phase' = phase \/ \E w \in Who : phase' = [phase EXCEPT ![w] = "seen"]
<1>1. ASSUME NEW step, Speaks(step)
      PROVE  UNCHANGED <<clicksBusOk, clickHealth, spiUp>> /\ conv.who \in Who
  BY <1>1, SpeaksFacts DEF Speaks
<1>2. ASSUME NEW outcome, Ended(outcome), conv.who \in Who
      PROVE  phase' = phase \/ \E w \in Who : phase' = [phase EXCEPT ![w] = "seen"]
  BY <1>2 DEF Ended
<1>3. ASSUME NEW step, Goes(step)
      PROVE  phase' = phase
  BY <1>3 DEF Goes
<1>4. CASE ProbeClick
  BY <1>1, <1>2, <1>3, <1>4 DEF ProbeClick, Failed
<1>5. CASE Readback
  BY <1>1, <1>2, <1>3, <1>5 DEF Readback, Failed
<1>6. CASE BiasOn
  BY <1>1, <1>2, <1>3, <1>6 DEF BiasOn, Failed
<1>7. CASE OneShot
  BY <1>1, <1>2, <1>3, <1>7 DEF OneShot, Failed
<1>8. CASE ReadCode
  BY <1>1, <1>2, <1>3, <1>8 DEF ReadCode, Failed
<1>9. CASE BiasOff
  BY <1>1, <1>2, <1>3, <1>9 DEF BiasOff, Failed
<1>10. CASE ClearFault
  BY <1>1, <1>2, <1>10 DEF ClearFault
<1> QED
  BY <1>4, <1>5, <1>6, <1>7, <1>8, <1>9, <1>10 DEF ClickIo

LEMMA UpdateRest ==
  ASSUME ClickRest, NEW w \in Who, UpdateClickHealth(w), UNCHANGED <<clicksBusOk, spiUp>>
  PROVE  ClickRest'
<1>1. phase' = [phase EXCEPT ![w] = "wait"]
  BY DEF UpdateClickHealth
<1>2. \A k \in Clicks : HealthOf(result[w][k], clickHealth[k])
                          \in {"discovering", "ok", "range", "failed", "lost"}
  BY DEF HealthOf
<1>3. clickHealth' \in [Clicks -> {"discovering", "ok", "range", "failed", "lost"}]
  BY <1>2 DEF UpdateClickHealth
<1> QED
  BY <1>1, <1>3 DEF ClickRest

LEMMA NextRest == Inv /\ ClickRest /\ [Next]_vars => ClickRest'
<1> SUFFICES ASSUME Inv, ClickRest, [Next]_vars PROVE ClickRest'
  OBVIOUS
<1>1. CASE UNCHANGED <<phase, clicksBusOk, clickHealth, spiUp>>
  BY <1>1 DEF ClickRest
<1>2. CASE UNCHANGED clickVars
  BY <1>1, <1>2 DEF clickVars
<1>3. CASE PollRtd \/ PublishRtd \/ CheckSequent \/ CardRepair
  BY <1>2, <1>3 DEF PollRtd, PublishRtd, CheckSequent, CardRepair, RtdOnly
<1>4. CASE (\E s \in Scalars : PollScalar(s)) \/ Snapshot \/ TimePasses \/ TempTrouble
  BY <1>2, <1>4 DEF PollScalar, Snapshot, TimePasses, TempTrouble
<1>5. CASE PollClicks
  <2>1. CASE ClickIo
    BY <2>1, ClickIoPhase DEF ClickRest
  <2>2. CASE Begin("worker")
    BY <2>2 DEF Begin, ClickRest, Who
  <2>3. CASE StoreBusOk
    <3>1. clicksBusOk' \in BOOLEAN
      BY <2>3, Zenon DEF StoreBusOk
    <3> QED
      BY <2>3, <3>1 DEF StoreBusOk, ClickRest
  <2>4. CASE \E k \in Clicks : Converts(k)
    BY <1>1, <2>4 DEF Converts, ChipOnly
  <2> QED
    BY <1>5, <2>1, <2>2, <2>3, <2>4 DEF PollClicks
<1>6. CASE PublishMax31865 \/ CheckMax31865
  <2>1. CASE Begin("check")
    BY <2>1 DEF Begin, ClickRest, Who
  <2> QED
    BY <1>6, <2>1, UpdateRest
    DEF PublishMax31865, CheckMax31865, PublishClicks, PublishCheck, Who
<1>7. CASE Kill
  <2>1. /\ phase' = [w \in Who |-> "wait"] /\ clicksBusOk' = FALSE /\ UNCHANGED spiUp
        /\ clickHealth' = [k \in Clicks |-> "discovering"]
    BY <1>7 DEF Kill, KillClicks
  <2> QED
    BY <2>1 DEF ClickRest
<1>8. CASE ClickTrouble \/ ClickRepair
  BY <1>1, <1>8 DEF ClickTrouble, ClickRepair, SpiFails, SpiBack, Vanishes, Returns,
     SpecimenChanges, ChipOnly, ClickRest
<1>9. CASE UNCHANGED vars
  BY <1>2, <1>9 DEF vars
<1> QED
  BY <1>3, <1>4, <1>5, <1>6, <1>7, <1>8, <1>9 DEF Next

Handed == CASE setup.source = "simulated" -> {"material"}
            [] setup.source = "sequent_rtd" -> {"zero", "element"}
            [] setup.source = "max31865_click" -> {"zero", "sound"}
            [] OTHER -> {"zero"}

OhmInv == /\ setup \in Setups /\ trouble \in 0..setup.trouble /\ resistanceOk \in BOOLEAN
          /\ ohm \in [Channels -> Handed]

ManagerInv == Inv /\ TempInv /\ Measured /\ ClickRest /\ OhmInv

LEMMA OwnsIs == /\ Owns("rtd") <=> setup.source = "sequent_rtd"
                /\ Owns("clicks") <=> setup.source = "max31865_click"
BY DEF Owns

LEMMA UnmeasuredHanded ==
  /\ Unmeasured \in [Channels -> Handed]
  /\ Handed \subseteq {"zero", "material", "element", "sound"}
BY DEF Unmeasured, Handed

(* Each worker writes what its source measures, and only if it is its turn.  *)
LEMMA PublishRtdOhm ==
  ASSUME OhmInv, PublishRtd
  PROVE  ohm' \in [Channels -> Handed]
<1>1. ohm' = [i \in Channels |-> IF Owns("rtd") /\ rtd.ok /\ i \in rtd.valid
                                 THEN "element" ELSE ohm[i]]
  BY DEF PublishRtd
<1>2. Owns("rtd") => "element" \in Handed
  BY OwnsIs DEF Handed
<1> QED
  BY <1>1, <1>2 DEF OhmInv

LEMMA PublishClicksOhm ==
  ASSUME ManagerInv, PublishMax31865
  PROVE  ohm' \in [Channels -> Handed]
<1> DEFINE at(i) == CHOOSE k \in Clicks : SampleOf[k] = i
           now(i) == Written(result["worker"][at(i)], ohm[i])
<1>1. ohm' = [i \in Channels |-> IF Owns("clicks") /\ \E k \in Clicks : SampleOf[k] = i
                                 THEN now(i) ELSE ohm[i]]
  BY DEF PublishMax31865
<1>2. ASSUME NEW i \in Channels, Owns("clicks"), \E k \in Clicks : SampleOf[k] = i
      PROVE  now(i) \in Handed
  <2>1. at(i) \in Clicks
    BY <1>2
  <2> HIDE DEF at
  <2>2. result["worker"][at(i)] # "old"
    BY <2>1 DEF ManagerInv, Measured, NoFalseOhms, Who
  <2>3. now(i) \in {"zero", "sound", ohm[i]}
    BY <2>2 DEF Written, Ok, Readings
  <2>4. {"zero", "sound"} \subseteq Handed
    BY <1>2, OwnsIs DEF Handed
  <2> QED
    BY <2>3, <2>4 DEF ManagerInv, OhmInv
<1> HIDE DEF now
<1> QED
  BY <1>1, <1>2 DEF ManagerInv, OhmInv

LEMMA NextOhm == ManagerInv /\ [Next]_vars => OhmInv'
<1> SUFFICES ASSUME ManagerInv, [Next]_vars PROVE OhmInv'
  OBVIOUS
<1>1. /\ setup \in Setups /\ trouble \in 0..setup.trouble /\ setup.trouble \in Nat
      /\ resistanceOk \in BOOLEAN /\ ohm \in [Channels -> Handed]
  BY SetupAssumption DEF ManagerInv, OhmInv
<1>2. /\ UNCHANGED setup
      /\ trouble' \in 0..setup.trouble
  <2>1. CASE Quiet
    BY <1>1, <2>1 DEF Quiet
  <2>2. CASE Trouble
    BY <1>1, <2>2 DEF Trouble
  <2>3. CASE UNCHANGED vars
    BY <1>1, <2>3 DEF vars
  <2> QED
    BY <2>1, <2>2, <2>3 DEF Next, PollRtd, PublishRtd, CheckSequent, RtdOnly, PollScalar,
       PollClicks, PublishMax31865, CheckMax31865, ClicksOnly, Snapshot, TimePasses, Kill,
       ClickTrouble, ClickRepair, TempTrouble, CardRepair
<1>3. Handed' = Handed
  BY <1>2 DEF Handed
<1>4. SUFFICES resistanceOk' \in BOOLEAN /\ ohm' \in [Channels -> Handed]
  BY <1>1, <1>2, <1>3 DEF OhmInv
<1>5. CASE UNCHANGED <<ohm, resistanceOk>>
  BY <1>1, <1>5
<1>6. CASE Snapshot
  <2>1. resistanceOk' \in {clicksBusOk, rtdBusOk, TRUE} /\ UNCHANGED ohm
    BY <1>6 DEF Snapshot
  <2>2. clicksBusOk \in BOOLEAN /\ rtdBusOk \in BOOLEAN
    BY DEF ManagerInv, ClickRest, TempInv, TempTypeOK
  <2> QED
    BY <1>1, <2>1, <2>2
<1>7. CASE PublishRtd
  BY <1>1, <1>7, PublishRtdOhm DEF ManagerInv, PublishRtd, RtdOnly
<1>8. CASE PublishMax31865
  BY <1>1, <1>8, PublishClicksOhm DEF PublishMax31865, ClicksOnly
<1>9. CASE Kill
  <2>1. ohm' = Unmeasured /\ resistanceOk' = FALSE
    BY <1>9 DEF Kill
  <2> QED
    BY <2>1, UnmeasuredHanded
<1>10. CASE UNCHANGED vars
  BY <1>5, <1>10 DEF vars
<1> QED
  BY <1>5, <1>6, <1>7, <1>8, <1>9, <1>10 DEF Next, PollRtd, CheckSequent, RtdOnly,
     PollScalar, PollClicks, CheckMax31865, ClicksOnly, TimePasses, ClickTrouble,
     ClickRepair, TempTrouble, CardRepair

LEMMA InitManager == Init => ManagerInv
<1> SUFFICES ASSUME Init PROVE ManagerInv
  OBVIOUS
<1>1. OhmInv
  <2>1. setup \in Setups /\ trouble = setup.trouble /\ setup.trouble \in Nat
    BY SetupAssumption DEF Init
  <2>2. ohm = Unmeasured /\ resistanceOk = FALSE
    BY DEF Init
  <2>3. resistanceOk \in BOOLEAN
    BY <2>2, Zenon
  <2>4. trouble \in 0..setup.trouble
    BY <2>1
  <2> QED
    BY <2>1, <2>2, <2>3, <2>4, UnmeasuredHanded DEF OhmInv
<1>2. ClickRest
  BY DEF Init, ClicksInit, ClickRest
<1> QED
  BY <1>1, <1>2, InitInv, InitMeasured, TempInitInv DEF Init, ManagerInv

(* Under any configuration the resistances handed out are measurements of    *)
(* the source it names, no ohms are older than the conversation that reports *)
(* them, and the caches that three threads write keep their types            *)
(* (SequentRtdLoop, Max31865Loop, ReadOneShot).                              *)
THEOREM SamplesSafe == Spec => []SamplesSound
<1>1. ManagerInv /\ [Next]_vars => ManagerInv'
  BY StepInv, NextTemp, NextMeasured, NextRest, NextOhm DEF ManagerInv
<1>2. ManagerInv => SamplesSound
  <2> SUFFICES ASSUME ManagerInv PROVE SamplesSound
    OBVIOUS
  <2>1. ClicksTypeOK
    BY DEF ManagerInv, Inv, Typed, Conv, Results, ClickRest, ClicksTypeOK
  <2>2. TypeOK
    BY <2>1, UnmeasuredHanded DEF ManagerInv, TempInv, OhmInv, TypeOK
  <2>3. \A i \in Channels : ohm[i] \in Handed
    BY DEF ManagerInv, OhmInv
  <2>4. OhmsOfSource
    BY <2>3 DEF Handed, OhmsOfSource, ManagerInv, Measured
  <2> QED
    BY <2>2, <2>4 DEF SamplesSound
<1> QED
  BY <1>1, <1>2, InitManager, PTL DEF Spec
=============================================================================
