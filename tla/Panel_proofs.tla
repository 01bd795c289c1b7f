---------------------------- MODULE Panel_proofs ----------------------------
(***************************************************************************)
(* Proofs about what the panel shows, in three parts:                      *)
(*   - ClockDisplay, for any contents of the clock screen, any brightness  *)
(*     levels and any time the diagnostics stay;                           *)
(*   - WarningFooter, for any forecasts, any texts and times to show them, *)
(*     any number of places in the list and of pieces of an alert;         *)
(*   - TodayForecast, for any sources, any lows and readings, any time a   *)
(*     forecast is given again, any number of days and of bulletins.       *)
(***************************************************************************)
EXTENDS ClockDisplay, WarningFooter, TodayForecast, NaturalsInduction, WellFoundedInduction, TLAPS

Frame == [fb : Pictures, valid : BOOLEAN, sent : [picture : Pictures, level : Levels]]
Panel == [picture : Pictures \union {Mixed}, level : Levels]

\* Drawing a picture leaves it in fb, and the preview shows what the panel does.
LEMMA WriteEffect ==
    ASSUME frame \in Frame, panel \in Panel, bright \in Levels, PreviewTrue,
           NEW picture \in Pictures, NEW full \in BOOLEAN, Write(picture, full)
    PROVE  frame' \in Frame /\ panel' \in Panel /\ frame'.fb = picture /\ PreviewTrue'
  <1> DEFINE sent == Shown(picture, bright)
  <1>1. sent \in [picture : Pictures, level : Levels] /\ sent \in Panel
        /\ Shown(Mixed, Full) \in Panel /\ Shown(Mixed, Full).picture = Mixed
    BY DisplayAssumption DEF Shown, Panel
  <1>2. CASE ~(full \/ ~frame.valid) /\ frame.sent.picture = picture
    <2>1. frame' = [frame EXCEPT !.fb = picture] /\ panel' = panel
      BY <1>2 DEF Write
    <2> QED
      BY <2>1 DEF Frame, PreviewTrue
  <1>3. CASE ~(~(full \/ ~frame.valid) /\ frame.sent.picture = picture) /\ spi = "up"
    <2>1. /\ frame' = [fb |-> picture, valid |-> TRUE, sent |-> sent]
          /\ panel' = sent \/ (panel' = panel /\ panel.picture = Mixed)
      BY <1>3 DEF Write
    <2> QED
      BY <1>1, <2>1 DEF Frame, PreviewTrue
  <1>4. CASE ~(~(full \/ ~frame.valid) /\ frame.sent.picture = picture) /\ spi # "up"
    <2>1. frame' = [frame EXCEPT !.fb = picture] /\ panel' \in {panel, Shown(Mixed, Full)}
      BY <1>4 DEF Write
    <2> QED
      BY <1>1, <2>1 DEF Frame, PreviewTrue
  <1> QED
    BY <1>2, <1>3, <1>4

Picture(m) == CASE m = "clock" -> Clock(content)
                   [] m = "clear" -> Clear
                   [] m = "diagnostics" -> Diagnostics

LEMMA PictureType == content \in Contents => \A m \in Modes : Picture(m) \in Pictures
  BY DEF Picture, Modes, Pictures

LEMMA DrawEffect ==
    ASSUME frame \in Frame, panel \in Panel, bright \in Levels, PreviewTrue,
           content \in Contents, NEW m \in Modes, Draw(m)
    PROVE  frame' \in Frame /\ panel' \in Panel /\ frame'.fb = Picture(m) /\ PreviewTrue'
  <1>1. \E full \in BOOLEAN : Write(Picture(m), full)
    BY DEF Draw, Picture, Modes
  <1> QED
    BY <1>1, PictureType, WriteEffect

-----------------------------------------------------------------------------
(* The inductive invariant.                                                 *)

\* The loop's copy of the mode is out of date only while dirty is set, or when
\* an alarm has asked for the clock.
ModeTaken ==
    CASE At("top") -> dirty \/ screen.mode \in {loop.last, "clock"}
      [] At("show") -> loop.mode \in Modes /\ (dirty \/ screen.mode = loop.mode)
      [] At("reread") -> dirty

\* Whoever makes the frame out of date leaves a reason to draw it.
RedrawOwed ==
    \/ dirty \/ posting # "none" \/ frame.fb = Picture(screen.mode)
    \/ At("top") /\ screen.mode # loop.last
    \/ At("show") /\ loop.changed

IInv == DisplayInv /\ ModeTaken /\ RedrawOwed

LEMMA InitHolds == Init => IInv
  <1> SUFFICES ASSUME Init PROVE IInv
    OBVIOUS
  <1>1. Clear \in Pictures
    BY DEF Pictures
  <1>2. TypeOK
    <2>1. frame \in Frame /\ panel \in Panel
      BY <1>1, DisplayAssumption DEF Init, Shown, Frame, Panel
    <2>2. 0 \in 0 .. DiagnosticFor /\ Full \in Levels
      BY DisplayAssumption
    <2> QED
      BY <2>1, <2>2 DEF Init, TypeOK, Modes, Frame, Panel
  <1> QED
    BY <1>2 DEF Init, IInv, DisplayInv, ChoiceKept, PreviewTrue, ModeTaken, RedrawOwed, At

-----------------------------------------------------------------------------
(* The steps of the other threads, the finger and the clock.                *)

LEMMA CloseKeeps ==
    ASSUME TypeOK, ChoiceKept, CloseDiagnostics, UNCHANGED chosen
    PROVE  /\ screen' \in [mode : Modes, return : Modes \ {"diagnostics"}, left : 0 .. DiagnosticFor]
           /\ dirty' \in BOOLEAN /\ ChoiceKept'
           /\ dirty' \/ UNCHANGED <<screen, dirty>>
           /\ screen'.mode # "diagnostics"
  <1>1. screen \in [mode : Modes, return : Modes \ {"diagnostics"}, left : 0 .. DiagnosticFor]
        /\ dirty \in BOOLEAN
    BY DEF TypeOK
  <1>2. 0 \in 0 .. DiagnosticFor
    BY DisplayAssumption
  <1>3. CASE screen.mode = "diagnostics"
    <2>1. screen' = [mode |-> screen.return, return |-> "clock", left |-> 0] /\ dirty'
      BY <1>3 DEF CloseDiagnostics
    <2> QED
      BY <1>1, <1>2, <1>3, <2>1 DEF ChoiceKept, Modes
  <1>4. CASE screen.mode # "diagnostics"
    BY <1>1, <1>4 DEF CloseDiagnostics, ChoiceKept
  <1> QED
    BY <1>3, <1>4

\* Whatever raises the flag, and keeps types, choice and preview, owes a redraw.
LEMMA FlagRaised ==
    ASSUME IInv, dirty', DisplayInv', UNCHANGED loop
    PROVE  IInv'
  <1>1. loop.at \in {"top", "show", "reread"}
    BY DEF IInv, DisplayInv, TypeOK
  <1>2. ModeTaken'
    BY <1>1 DEF IInv, ModeTaken, At
  <1> QED
    BY <1>2 DEF IInv, RedrawOwed

LEMMA OthersKeep ==
    ASSUME IInv, IPC \/ RaiseDirty \/ OpenDiagnostics \/ TouchCloses \/ Others \/ Tick
    PROVE  IInv'
  <1> USE DEF IInv, DisplayInv
  <1>0. /\ screen \in [mode : Modes, return : Modes \ {"diagnostics"}, left : 0 .. DiagnosticFor]
        /\ dirty \in BOOLEAN /\ posting \in {"none", "flag", "late"}
    BY DEF TypeOK
  <1>1. CASE \E c \in Contents, level \in Levels : ConfigDisplay(c, level)
    <2>1. DisplayInv' /\ dirty' /\ UNCHANGED loop
      BY <1>1 DEF ConfigDisplay, TypeOK, ChoiceKept, PreviewTrue, unseen
    <2> QED
      BY <2>1, FlagRaised
  <1>2. ASSUME NEW m \in {"clock", "clear"}, ShowMode(m) PROVE IInv'
    <2>1. /\ screen' = [screen EXCEPT !.mode = m] /\ chosen' = m /\ dirty'
          /\ UNCHANGED <<environment, bright, frame, panel, loop>>
      BY <1>2 DEF ShowMode, unseen
    <2>2. TypeOK'
      BY <1>0, <2>1 DEF TypeOK, Modes, environment, unowed
    <2>3. ChoiceKept' /\ PreviewTrue'
      BY <1>0, <2>1 DEF ChoiceKept, PreviewTrue
    <2> QED
      BY <2>1, <2>2, <2>3, FlagRaised
  <1>3. CASE \E c \in Contents : Post(c)
    <2>1. PICK c \in Contents : content' = c /\ posting' = "flag"
             /\ UNCHANGED <<screen, chosen, dirty, wanted, bright, spi, frame, panel, loop>>
      BY <1>3 DEF Post, unseen
    <2>2. TypeOK'
      BY <1>0, <2>1 DEF TypeOK
    <2> QED
      BY <2>1, <2>2 DEF ChoiceKept, PreviewTrue, ModeTaken, RedrawOwed, At
  <1>4. CASE RaiseDirty \/ AudioChanges
    <2>1. /\ dirty' /\ dirty' \in BOOLEAN /\ posting' \in {"none", "flag", "late"}
          /\ UNCHANGED <<content, screen, chosen, wanted, bright, spi, frame, panel, loop>>
      BY <1>0, <1>4 DEF RaiseDirty, AudioChanges, environment, unowed, unseen
    <2>2. TypeOK'
      BY <2>1 DEF TypeOK
    <2>3. ChoiceKept' /\ PreviewTrue'
      BY <2>1 DEF ChoiceKept, PreviewTrue
    <2> QED
      BY <2>1, <2>2, <2>3, FlagRaised
  <1>5. CASE OpenDiagnostics
    <2>1. /\ screen' = [mode |-> "diagnostics", return |-> screen.mode, left |-> DiagnosticFor]
          /\ screen.mode # "diagnostics" /\ dirty' = TRUE
          /\ UNCHANGED <<content, posting, wanted, spi, chosen, bright, frame, panel, loop>>
      BY <1>5 DEF OpenDiagnostics, environment, unowed
    <2>2. TypeOK'
      <3>1. DiagnosticFor \in 0 .. DiagnosticFor
        BY DisplayAssumption
      <3> QED
        BY <1>0, <2>1, <3>1 DEF TypeOK, Modes
    <2>3. ChoiceKept' /\ PreviewTrue'
      BY <1>0, <2>1 DEF ChoiceKept, PreviewTrue
    <2> QED
      BY <2>1, <2>2, <2>3, FlagRaised
  <1>6. CASE TouchCloses
    <2>1. CloseDiagnostics
          /\ UNCHANGED <<content, posting, wanted, spi, chosen, bright, frame, panel, loop>>
      BY <1>6 DEF TouchCloses, environment, unowed
    <2>2. /\ screen' \in [mode : Modes, return : Modes \ {"diagnostics"}, left : 0 .. DiagnosticFor]
          /\ dirty' \in BOOLEAN /\ ChoiceKept' /\ (dirty' \/ UNCHANGED <<screen, dirty>>)
      BY <2>1, CloseKeeps
    <2>3. DisplayInv'
      BY <2>1, <2>2 DEF TypeOK, PreviewTrue
    <2>4. CASE dirty'
      BY <2>1, <2>3, <2>4, FlagRaised
    <2>5. CASE UNCHANGED <<screen, dirty>>
      BY <2>1, <2>3, <2>5 DEF ModeTaken, RedrawOwed, At, Picture
    <2> QED
      BY <2>2, <2>4, <2>5
  <1>7. CASE BusChanges \/ \E level \in Levels : BedtimeMoves(level)
    <2>1. /\ UNCHANGED <<content, posting, screen, chosen, dirty, bright, frame, panel, loop>>
          /\ wanted' \in Levels /\ spi' \in {"up", "down"}
      BY <1>7 DEF BusChanges, BedtimeMoves, unseen, TypeOK
    <2>2. TypeOK'
      BY <2>1 DEF TypeOK
    <2> QED
      BY <2>1, <2>2 DEF ChoiceKept, PreviewTrue, ModeTaken, RedrawOwed, At, Picture
  <1>8. CASE Tick
    <2>1. /\ screen' = [screen EXCEPT !.left = @ - 1] /\ screen.left > 0
          /\ UNCHANGED <<content, posting, wanted, spi, chosen, dirty, bright, frame, panel, loop>>
      BY <1>8 DEF Tick, environment, unowed
    <2>2. screen' \in [mode : Modes, return : Modes \ {"diagnostics"}, left : 0 .. DiagnosticFor]
          /\ screen'.mode = screen.mode /\ screen'.return = screen.return
      <3>1. screen.left - 1 \in 0 .. DiagnosticFor
        BY <1>0, <2>1, DisplayAssumption
      <3> QED
        BY <1>0, <2>1, <3>1
    <2>3. TypeOK'
      BY <2>1, <2>2 DEF TypeOK
    <2> QED
      BY <2>1, <2>2, <2>3 DEF ChoiceKept, PreviewTrue, ModeTaken, RedrawOwed, At, Picture
  <1>9. ASSUME NEW c \in Contents, ReplaceFont(c) PROVE IInv'
    <2>1. /\ c # content /\ content' = c
          /\ UNCHANGED <<screen, chosen, wanted, bright, spi, frame, panel, loop>>
          /\ \/ dirty' = TRUE /\ posting' = posting
             \/ /\ dirty' = dirty
                /\ posting' = IF frame.fb = Clock(content) /\ ~WillDraw THEN "late" ELSE posting
      BY <1>9 DEF ReplaceFont, unseen
    <2>2. DisplayInv'
      BY <1>0, <2>1 DEF TypeOK, ChoiceKept, PreviewTrue
    <2>3. CASE dirty' = TRUE
      BY <2>1, <2>2, <2>3, FlagRaised
    <2>4. CASE /\ dirty' = dirty
               /\ posting' = IF frame.fb = Clock(content) /\ ~WillDraw THEN "late" ELSE posting
      <3>1. ModeTaken'
        BY <2>1, <2>4 DEF ModeTaken, At
      <3>2. frame.fb = Clock(content) /\ ~WillDraw => RedrawOwed'
        BY <2>4 DEF RedrawOwed
      <3>3. WillDraw => RedrawOwed'
        BY <2>1, <2>4, <3>1 DEF WillDraw, RedrawOwed, ModeTaken, At
      <3>4. ASSUME frame.fb # Clock(content), ~WillDraw PROVE RedrawOwed'
        <4>1. Picture(screen.mode)' = Picture(screen.mode) \/ screen.mode = "clock"
          BY <1>0, <2>1 DEF Picture, Modes
        <4>2. screen.mode = "clock" => Picture(screen.mode) = Clock(content)
          BY DEF Picture
        <4> QED
          BY <2>1, <2>4, <3>4, <4>1, <4>2 DEF WillDraw, RedrawOwed, At
      <3> QED
        BY <2>2, <3>1, <3>2, <3>3, <3>4
    <2> QED
      BY <2>1, <2>3, <2>4
  <1> QED
    BY <1>1, <1>2, <1>3, <1>4, <1>5, <1>6, <1>7, <1>8, <1>9 DEF IPC, Others

-----------------------------------------------------------------------------
(* The steps of the main loop.                                              *)

LEMMA FireAlarmKeeps == ASSUME IInv, FireAlarm PROVE IInv'
  <1> USE DEF IInv, DisplayInv
  <1>0. screen \in [mode : Modes, return : Modes \ {"diagnostics"}, left : 0 .. DiagnosticFor]
    BY DEF TypeOK
  <1>1. /\ screen' = [screen EXCEPT !.mode = "clock"] /\ chosen' = "clock" /\ At("top")
        /\ UNCHANGED <<content, posting, wanted, spi, dirty, bright, frame, panel, loop>>
    BY DEF FireAlarm, environment, unowed
  <1>2. TypeOK'
    BY <1>0, <1>1 DEF TypeOK, Modes
  <1>3. ChoiceKept' /\ PreviewTrue'
    BY <1>0, <1>1 DEF ChoiceKept, PreviewTrue
  <1>4. ModeTaken'
    BY <1>0, <1>1 DEF ModeTaken, At
  <1>5. RedrawOwed'
    BY <1>0, <1>1 DEF ModeTaken, RedrawOwed, At, Picture
  <1> QED
    BY <1>2, <1>3, <1>4, <1>5

LEMMA TakeKeeps == ASSUME IInv, Take PROVE IInv'
  <1> USE DEF IInv, DisplayInv
  <1>0. /\ frame \in Frame /\ wanted \in Levels /\ bright \in Levels /\ dirty \in BOOLEAN
        /\ screen.mode \in Modes
        /\ loop \in [at : {"top", "show", "reread"}, mode : Modes \union {"none"},
                     changed : BOOLEAN, last : Modes \union {"none"}]
    BY DEF TypeOK, Frame
  <1>1. /\ UNCHANGED <<content, posting, wanted, spi, screen, chosen, panel>>
        /\ dirty' = FALSE /\ At("top")
        /\ loop' = [at |-> "show", mode |-> screen.mode, last |-> screen.mode,
                     changed |-> dirty \/ BrightnessSet \/ screen.mode # loop.last]
        /\ bright' = (IF BrightnessSet THEN wanted ELSE bright)
        /\ frame' = (IF BrightnessSet THEN [frame EXCEPT !.valid = FALSE] ELSE frame)
    BY DEF Take, environment, unowed, ApplyBrightness, Go
  <1>2. frame' \in Frame /\ frame'.fb = frame.fb /\ frame'.sent = frame.sent
    BY <1>0, <1>1 DEF Frame
  <1>3. bright' \in Levels
    BY <1>0, <1>1
  <1>4. /\ loop' \in [at : {"top", "show", "reread"}, mode : Modes \union {"none"},
                      changed : BOOLEAN, last : Modes \union {"none"}]
        /\ loop'.at = "show" /\ loop'.mode = screen.mode /\ loop'.last = screen.mode
        /\ loop'.changed = (dirty \/ BrightnessSet \/ screen.mode # loop.last)
    <2>1. (dirty \/ BrightnessSet \/ screen.mode # loop.last) \in BOOLEAN
      OBVIOUS
    <2> QED
      BY <1>0, <1>1, <2>1
  <1>5. TypeOK'
    BY <1>1, <1>2, <1>3, <1>4 DEF TypeOK, Frame
  <1>6. ChoiceKept' /\ PreviewTrue' /\ ModeTaken'
    BY <1>0, <1>1, <1>2, <1>4 DEF ChoiceKept, PreviewTrue, ModeTaken, At
  <1>7. RedrawOwed'
    BY <1>1, <1>2, <1>4 DEF RedrawOwed, At, Picture
  <1> QED
    BY <1>5, <1>6, <1>7

LEMMA TimeOutKeeps == ASSUME IInv, DiagnosticsTimeOut PROVE IInv'
  <1> USE DEF IInv, DisplayInv
  <1>1. /\ CloseDiagnostics /\ At("show") /\ loop.mode = "diagnostics"
        /\ UNCHANGED <<content, posting, wanted, spi, chosen, bright, frame, panel>>
        /\ loop' = [loop EXCEPT !.at = "reread"]
    BY DEF DiagnosticsTimeOut, environment, unowed, Go
  <1>2. /\ screen' \in [mode : Modes, return : Modes \ {"diagnostics"}, left : 0 .. DiagnosticFor]
        /\ dirty' \in BOOLEAN /\ ChoiceKept' /\ (dirty' \/ UNCHANGED <<screen, dirty>>)
        /\ screen'.mode # "diagnostics"
    BY <1>1, CloseKeeps
  <1>3. dirty'
    BY <1>1, <1>2 DEF ModeTaken, At
  <1>4. TypeOK' /\ loop'.at = "reread"
    BY <1>1, <1>2 DEF TypeOK
  <1> QED
    BY <1>1, <1>2, <1>3, <1>4 DEF PreviewTrue, ModeTaken, RedrawOwed, At

\* The end of a pass: the picture of the mode it took is drawn, or it is not needed.
LEMMA PassEnds ==
    ASSUME IInv, NEW m \in Modes, Done(m),
           UNCHANGED <<content, wanted, spi, screen, chosen, dirty, bright>>,
           posting' \in {"none", "flag", "late"},
           frame' \in Frame, panel' \in Panel, PreviewTrue',
           (At("show") /\ loop.mode = m) \/ At("reread"),
           \/ frame'.fb = Picture(m)
           \/ /\ frame'.fb = frame.fb /\ posting' = posting
              /\ At("show") /\ ~loop.changed
           \/ At("reread")
    PROVE  IInv'
  <1> USE DEF IInv, DisplayInv
  <1>1. loop' = [at |-> "top", mode |-> "none", changed |-> FALSE, last |-> m]
    BY DEF Done, Go
  <1>2. TypeOK'
    BY <1>1 DEF TypeOK, Frame, Panel
  <1>3. ChoiceKept' /\ ModeTaken'
    BY <1>1 DEF ChoiceKept, ModeTaken, At
  <1>4. RedrawOwed'
    BY <1>1 DEF ModeTaken, RedrawOwed, At, Picture
  <1> QED
    BY <1>2, <1>3, <1>4

LEMMA PaintEffect ==
    ASSUME frame \in Frame, panel \in Panel, bright \in Levels, PreviewTrue, content \in Contents,
           posting \in {"none", "flag", "late"},
           NEW m \in Modes, NEW changed \in BOOLEAN, Paint(m, changed)
    PROVE  /\ frame' \in Frame /\ panel' \in Panel /\ PreviewTrue' /\ Done(m)
           /\ UNCHANGED <<content, wanted, spi, screen, chosen, dirty, bright>>
           /\ posting' \in {"none", "flag", "late"}
           /\ changed /\ m # "diagnostics" => frame'.fb = Picture(m)
           /\ ~changed => frame'.fb = frame.fb /\ posting' = posting
  <1>0. /\ Done(m) /\ UNCHANGED <<content, wanted, spi, screen, chosen, dirty, bright>>
        /\ posting' = IF changed /\ posting = "late" THEN "none" ELSE posting
    BY DEF Paint, unowed
  <1>1. CASE m = "clock" /\ changed
    BY <1>0, <1>1, DrawEffect DEF Paint
  <1>2. CASE m = "clock" /\ ~changed
    <2>1. Write(frame.fb, FALSE) /\ frame.fb \in Pictures
      BY <1>2 DEF Paint, Frame
    <2> QED
      BY <1>0, <1>2, <2>1, WriteEffect
  <1>3. CASE m = "clear" /\ changed
    <2>1. Draw("clear")
      BY <1>3 DEF Paint
    <2> QED
      BY <1>0, <1>3, <2>1, DrawEffect
  <1>4. CASE m = "diagnostics" \/ (m = "clear" /\ ~changed)
    <2>1. UNCHANGED <<frame, panel>>
      BY <1>4 DEF Paint, KeepPanel
    <2> QED
      BY <1>0, <1>4, <2>1 DEF PreviewTrue
  <1> QED
    BY <1>1, <1>2, <1>3, <1>4 DEF Modes

LEMMA ShowKeeps ==
    ASSUME IInv,
           \/ ShowClear \/ ShowAfterDiagnostics
           \/ \E due \in BOOLEAN : ShowClock(due) \/ ShowDiagnostics(due)
    PROVE  IInv'
  <1>0. /\ frame \in Frame /\ panel \in Panel /\ bright \in Levels /\ PreviewTrue
        /\ content \in Contents /\ screen.mode \in Modes /\ loop.changed \in BOOLEAN
        /\ posting \in {"none", "flag", "late"}
    BY DEF IInv, DisplayInv, TypeOK, Frame, Panel
  <1>1. ASSUME NEW due \in BOOLEAN, ShowClock(due) PROVE IInv'
    <2>1. At("show") /\ loop.mode = "clock" /\ "clock" \in Modes
      BY <1>1 DEF ShowClock, Modes
    <2>2. Paint("clock", due \/ loop.changed)
      BY <1>1 DEF ShowClock
    <2> QED
      BY <1>0, <2>1, <2>2, PaintEffect, PassEnds
  <1>2. CASE ShowClear
    <2>1. At("show") /\ loop.mode = "clear" /\ "clear" \in Modes
      BY <1>2 DEF ShowClear, Modes
    <2>2. Paint("clear", loop.changed)
      BY <1>2 DEF ShowClear
    <2> QED
      BY <1>0, <2>1, <2>2, PaintEffect, PassEnds
  <1>3. CASE ShowAfterDiagnostics
    <2>1. At("reread") /\ Paint(screen.mode, TRUE)
      BY <1>3 DEF ShowAfterDiagnostics
    <2> QED
      BY <1>0, <2>1, PaintEffect, PassEnds
  <1>4. ASSUME NEW due \in BOOLEAN, ShowDiagnostics(due) PROVE IInv'
    <2>1. /\ At("show") /\ loop.mode = "diagnostics" /\ "diagnostics" \in Modes
          /\ Done("diagnostics")
          /\ UNCHANGED <<content, posting, wanted, spi, screen, chosen, dirty, bright>>
      BY <1>4 DEF ShowDiagnostics, Modes, environment, unowed
    <2>2. CASE due \/ loop.changed
      <3>1. Draw("diagnostics")
        BY <1>4, <2>2 DEF ShowDiagnostics
      <3> QED
        BY <1>0, <2>1, <3>1, DrawEffect, PassEnds
    <2>3. CASE ~(due \/ loop.changed)
      <3>1. UNCHANGED <<frame, panel>>
        BY <1>4, <2>3 DEF ShowDiagnostics, KeepPanel
      <3>2. PreviewTrue'
        BY <1>0, <3>1 DEF PreviewTrue
      <3> QED
        BY <1>0, <2>1, <2>3, <3>1, <3>2, PassEnds
    <2> QED
      BY <2>2, <2>3
  <1> QED
    BY <1>1, <1>2, <1>3, <1>4

-----------------------------------------------------------------------------
LEMMA IInvStep == IInv /\ [Next]_vars => IInv'
  <1> SUFFICES ASSUME IInv, [Next]_vars PROVE IInv'
    OBVIOUS
  <1>1. CASE Next
    BY <1>1, OthersKeep, FireAlarmKeeps, TakeKeeps, TimeOutKeeps, ShowKeeps DEF Next, Loop
  <1>2. CASE UNCHANGED vars
    BY <1>2 DEF vars, IInv, DisplayInv, TypeOK, ChoiceKept, PreviewTrue, ModeTaken, RedrawOwed,
                At, Picture
  <1> QED
    BY <1>1, <1>2

LEMMA Invariance == Spec => []IInv
  BY InitHolds, IInvStep, PTL DEF Spec

\* Whatever the finger, the clients and the alarms do at once: the screen last
\* asked for is on, or will be when the diagnostics close, and the preview is
\* what the panel shows (close_diagnostic_screen, oled_flush).
THEOREM DisplayCorrect == Spec => []DisplayInv
  <1>1. IInv => DisplayInv
    BY DEF IInv
  <1> QED
    BY <1>1, Invariance, PTL

\* No redraw is lost between display_dirty, the state it announces and the loop
\* that takes the flag first and reads the state afterwards.  Only a font whose cache was
\* reset after the redraw is excepted.
THEOREM RedrawCorrect == Spec => []NoLostRedraw
  <1>1. ASSUME IInv PROVE NoLostRedraw
    <2>1. posting \in {"none", "flag", "late"}
      BY <1>1 DEF IInv, DisplayInv, TypeOK
    <2> QED
      BY <1>1, <2>1 DEF IInv, RedrawOwed, NoLostRedraw, Picture, At
  <1> QED
    BY <1>1, Invariance, PTL

-----------------------------------------------------------------------------
(* Least elements, for the other two parts.                                  *)

\* Every set of natural numbers has a least element, if any.
LEMMA LeastElement ==
    ASSUME NEW T \in SUBSET Nat, T # {}
    PROVE  \E x \in T : \A y \in T : x <= y
  <1> DEFINE R == OpToRel(<, Nat)
  <1>1. IsWellFoundedOn(R, Nat)
    BY NatLessThanWellFounded
  <1>2. \A x, y \in Nat : <<y, x>> \in R <=> y < x
    BY DEF OpToRel
  <1> HIDE DEF R
  <1>3. PICK x \in T : \A y \in T : <<y, x>> \notin R
    BY <1>1, WFMin
  <1>4. ASSUME NEW y \in T PROVE x <= y
    <2>1. x \in Nat /\ y \in Nat /\ ~(y < x)
      BY <1>2, <1>3
    <2> QED
      BY <2>1
  <1> QED
    BY <1>4

\* Induction over the natural numbers, stated for a set.
LEMMA SetInduction ==
    ASSUME NEW S, 0 \in S, \A n \in Nat : n \in S => n + 1 \in S
    PROVE  Nat \subseteq S
  <1> SUFFICES ASSUME Nat \ S # {} PROVE FALSE
    OBVIOUS
  <1>1. PICK x \in Nat \ S : \A y \in Nat \ S : x <= y
    BY LeastElement
  <1>2. x - 1 \in Nat /\ x - 1 \notin Nat \ S
    BY <1>1
  <1> QED
    BY <1>1, <1>2

-----------------------------------------------------------------------------
(* WarningFooter: the list of messages.                                      *)

Alert == [title : Texts, text : Seq(Texts), live : BOOLEAN]

\* The function Active computes, up to the alert m.
IsTaken(taken, b, m) ==
    taken = [i \in 0 .. m |->
               IF i = 0 THEN <<>>
               ELSE IF b[i].live /\ Len(taken[i - 1]) < Slots THEN Append(taken[i - 1], b[i])
               ELSE taken[i - 1]]

\* The function Messages computes, up to the place m.
IsListing(list, active, m) ==
    list = [k \in 0 .. m |-> IF k = 0 THEN <<>> ELSE Listed(list[k - 1], Offered(active, k))]

\* The loop over the alerts ends: there is such a function for every m.
LEMMA TakenExists ==
    ASSUME NEW b, NEW m \in Nat
    PROVE  \E taken : IsTaken(taken, b, m)
  <1> DEFINE S == {k \in Nat : \E taken : IsTaken(taken, b, k)}
             Next1(s, i) == IF b[i].live /\ Len(s) < Slots THEN Append(s, b[i]) ELSE s
  <1>1. 0 \in S
    <2>1. IsTaken([i \in 0 .. 0 |-> <<>>], b, 0)
      BY DEF IsTaken
    <2> QED
      BY <2>1
  <1>2. ASSUME NEW k \in Nat, k \in S PROVE k + 1 \in S
    <2>1. PICK f : IsTaken(f, b, k)
      BY <1>2
    <2> DEFINE g == [i \in 0 .. k + 1 |-> IF i \in 0 .. k THEN f[i] ELSE Next1(f[i - 1], i)]
    <2>2. ASSUME NEW i \in 0 .. k + 1
          PROVE  g[i] = IF i = 0 THEN <<>> ELSE Next1(g[i - 1], i)
      <3> HIDE DEF Next1
      <3>1. CASE i = 0
        BY <2>1, <3>1 DEF IsTaken
      <3>2. CASE i # 0
        <4>1. i - 1 \in 0 .. k /\ i - 1 \in 0 .. k + 1
          BY <3>2
        <4>2. g[i - 1] = f[i - 1]
          BY <4>1
        <4>3. CASE i \in 0 .. k
          <5>1. f[i] = Next1(f[i - 1], i)
            BY <2>1, <3>2, <4>3 DEF IsTaken, Next1
          <5> QED
            BY <3>2, <4>2, <4>3, <5>1
        <4>4. CASE i \notin 0 .. k
          BY <3>2, <4>2, <4>4
        <4> QED
          BY <4>3, <4>4
      <3> QED
        BY <3>1, <3>2
    <2>3. g = [i \in 0 .. k + 1 |-> g[i]]
      OBVIOUS
    <2> HIDE DEF g
    <2>4. IsTaken(g, b, k + 1)
      BY <2>2, <2>3 DEF IsTaken
    <2> QED
      BY <2>4
  <1> HIDE DEF S
  <1>3. m \in S
    BY <1>1, <1>2, SetInduction
  <1> QED
    BY <1>3 DEF S

\* No more alerts take part than there are slots, and each is live.
LEMMA ActiveFacts ==
    ASSUME NEW b \in Seq(Alert)
    PROVE  Active(b) \in Seq(Alert) /\ Len(Active(b)) <= Slots
  <1> DEFINE n == Len(b)
             taken == CHOOSE f : IsTaken(f, b, n)
             Good(i) == taken[i] \in Seq(Alert) /\ Len(taken[i]) <= Slots
             S == {i \in Nat : i <= n => Good(i)}
  <1>1. n \in Nat /\ DOMAIN b = 1 .. n /\ \A i \in 1 .. n : b[i] \in Alert
    OBVIOUS
  <1>2. IsTaken(taken, b, n)
    BY <1>1, TakenExists
  <1>3. Active(b) = taken[n]
    BY DEF Active, IsTaken
  <1> HIDE DEF n, taken
  <1>4. taken[0] = <<>>
    <2>1. 0 \in 0 .. n
      BY <1>1
    <2> QED
      BY <1>2, <2>1 DEF IsTaken
  <1>5. ASSUME NEW i \in 1 .. n
        PROVE  taken[i] = IF b[i].live /\ Len(taken[i - 1]) < Slots
                          THEN Append(taken[i - 1], b[i]) ELSE taken[i - 1]
    <2>1. i \in 0 .. n /\ i # 0
      BY <1>1
    <2> QED
      BY <1>2, <2>1 DEF IsTaken
  <1>6. 0 \in S
    <2>1. taken[0] \in Seq(Alert) /\ Len(taken[0]) = 0
      BY <1>4
    <2> QED
      BY <2>1, FooterAssumption
  <1>7. ASSUME NEW i \in Nat, i \in S PROVE i + 1 \in S
    <2> SUFFICES ASSUME i + 1 <= n PROVE Good(i + 1)
      OBVIOUS
    <2>1. Good(i) /\ i + 1 \in 1 .. n /\ (i + 1) - 1 = i
      BY <1>1, <1>7
    <2>2. taken[i + 1] \in {taken[i], Append(taken[i], b[i + 1])}
          /\ (Len(taken[i]) < Slots \/ taken[i + 1] = taken[i])
      BY <1>5, <2>1
    <2>3. b[i + 1] \in Alert /\ Slots \in Nat
      BY <1>1, <2>1, FooterAssumption
    <2>4. CASE taken[i + 1] = taken[i]
      BY <2>1, <2>4
    <2>5. CASE taken[i + 1] # taken[i]
      <3>1. taken[i + 1] = Append(taken[i], b[i + 1]) /\ Len(taken[i]) < Slots
        BY <2>2, <2>5
      <3> DEFINE s == taken[i]
      <3>2. s \in Seq(Alert) /\ Len(s) \in Nat
        BY <2>1
      <3> HIDE DEF s
      <3>3. Append(s, b[i + 1]) \in Seq(Alert) /\ Len(Append(s, b[i + 1])) = Len(s) + 1
        BY <2>3, <3>2
      <3> QED
        BY <2>3, <3>1, <3>2, <3>3 DEF s
    <2> QED
      BY <2>4, <2>5
  <1> HIDE DEF S
  <1>8. n \in S
    BY <1>1, <1>6, <1>7, SetInduction
  <1> QED
    BY <1>1, <1>3, <1>8 DEF S

\* The loops over headings and pieces end.
LEMMA ListingExists ==
    ASSUME NEW active, NEW m \in Nat
    PROVE  \E list : IsListing(list, active, m)
  <1> DEFINE S == {k \in Nat : \E list : IsListing(list, active, k)}
  <1>1. 0 \in S
    <2>1. IsListing([k \in 0 .. 0 |-> <<>>], active, 0)
      BY DEF IsListing
    <2> QED
      BY <2>1
  <1>2. ASSUME NEW k \in Nat, k \in S PROVE k + 1 \in S
    <2>1. PICK f : IsListing(f, active, k)
      BY <1>2
    <2> DEFINE g == [i \in 0 .. k + 1 |-> IF i \in 0 .. k THEN f[i]
                                          ELSE Listed(f[i - 1], Offered(active, i))]
    <2>2. ASSUME NEW i \in 0 .. k + 1
          PROVE  g[i] = IF i = 0 THEN <<>> ELSE Listed(g[i - 1], Offered(active, i))
      <3>1. CASE i = 0
        BY <2>1, <3>1 DEF IsListing
      <3>2. CASE i # 0
        <4>1. i - 1 \in 0 .. k /\ i - 1 \in 0 .. k + 1
          BY <3>2
        <4>2. g[i - 1] = f[i - 1]
          BY <4>1
        <4>3. CASE i \in 0 .. k
          <5>1. f[i] = Listed(f[i - 1], Offered(active, i))
            BY <2>1, <3>2, <4>3 DEF IsListing
          <5> QED
            BY <3>2, <4>2, <4>3, <5>1
        <4>4. CASE i \notin 0 .. k
          BY <3>2, <4>2, <4>4
        <4> QED
          BY <4>3, <4>4
      <3> QED
        BY <3>1, <3>2
    <2>3. g = [i \in 0 .. k + 1 |-> g[i]]
      OBVIOUS
    <2> HIDE DEF g
    <2>4. IsListing(g, active, k + 1)
      BY <2>2, <2>3 DEF IsListing
    <2> QED
      BY <2>4
  <1> HIDE DEF S
  <1>3. m \in S
    BY <1>1, <1>2, SetInduction
  <1> QED
    BY <1>3 DEF S

\* A heading or a piece of the alert a.
Says(a, t) == t = a.title \/ t \in ToSet(a.text)

\* What is offered is said by an alert, a heading first.
LEMMA OfferedFacts ==
    ASSUME NEW active \in Seq(Alert), NEW k \in Nat \ {0}, active # <<>>
    PROVE  /\ Offered(active, k) # NoText
              => \E i \in DOMAIN active : Says(active[i], Offered(active, k))
           /\ k <= Len(active) => Offered(active, k) = active[k].title
  <1> DEFINE n == Len(active)
             i == ((k - 1) % n) + 1
             round == (k - 1) \div n
  <1>1. n \in Nat \ {0} /\ DOMAIN active = 1 .. n /\ \A j \in 1 .. n : active[j] \in Alert
    OBVIOUS
  <1>2. k \in 1 .. n => k \in DOMAIN active /\ Offered(active, k) = active[k].title
    BY <1>1 DEF Offered
  <1>3. ASSUME k > n PROVE i \in 1 .. n /\ round \in Nat \ {0}
    <2> HIDE DEF n
    <2>1. (k - 1) % n \in 0 .. n - 1 /\ round \in Int
      BY <1>1
    <2>2. k - 1 = n * round + ((k - 1) % n)
      BY <1>1
    <2>3. round > 0
      BY <1>1, <1>3, <2>1, <2>2
    <2> QED
      BY <1>1, <2>1, <2>3
  <1>4. ASSUME k > n, Offered(active, k) # NoText
        PROVE  i \in DOMAIN active /\ Offered(active, k) \in ToSet(active[i].text)
    <2>1. i \in 1 .. n /\ active[i] \in Alert
      BY <1>1, <1>3, <1>4
    <2>2. Offered(active, k) = active[i].text[round] /\ round \in 1 .. Len(active[i].text)
      BY <1>1, <1>3, <1>4, <2>1 DEF Offered, Alert
    <2> HIDE DEF i, round
    <2>3. active[i].text \in Seq(Texts)
      BY <2>1 DEF Alert
    <2>4. round \in DOMAIN active[i].text
      BY <2>2, <2>3
    <2> QED
      BY <1>1, <2>1, <2>2, <2>4 DEF ToSet
  <1> HIDE DEF i, n
  <1>5. k \in 1 .. n \/ k > n
    BY <1>1
  <1> QED
    BY <1>1, <1>2, <1>4, <1>5 DEF Says, n

\* Listing a text that fits changes nothing else, and the list stays without repetitions.
LEMMA ListedFacts ==
    ASSUME NEW used \in Seq(Texts), NEW t \in Texts \union {NoText},
           Len(used) <= Slots, IsInjective(used)
    PROVE  LET l == Listed(used, t)
           IN /\ l \in Seq(Texts) /\ Len(l) <= Slots /\ Len(l) <= Len(used) + 1 /\ IsInjective(l)
              /\ ToSet(l) = ToSet(used) \/ (t # NoText /\ ToSet(l) = ToSet(used) \union {t})
              /\ Len(used) < Slots /\ t # NoText => t \in ToSet(l)
  <1> DEFINE l == Listed(used, t)
             n == Len(used)
  <1>0. n \in Nat /\ Slots \in Nat
    BY FooterAssumption
  <1>1. DOMAIN used = 1 .. n
    OBVIOUS
  <1>2. CASE t = NoText \/ n = Slots \/ t \in ToSet(used)
    <2>1. l = used
      BY <1>2 DEF Listed
    <2>2. t \notin ToSet(used) /\ t # NoText => ~(Len(used) < Slots)
      BY <1>0, <1>2
    <2>3. used \in Seq(Texts) /\ Len(used) <= Len(used) + 1
      BY <1>0
    <2> HIDE DEF l, n
    <2> QED
      BY <2>1, <2>2, <2>3 DEF l
  <1>3. CASE ~(t = NoText \/ n = Slots \/ t \in ToSet(used))
    <2>1. l = Append(used, t) /\ t # NoText /\ n < Slots /\ t \notin ToSet(used) /\ t \in Texts
      <3>1. l = Append(used, t)
        BY <1>3 DEF Listed
      <3>2. n < Slots
        BY <1>0, <1>3
      <3>3. t # NoText /\ t \notin ToSet(used)
        BY <1>3
      <3> HIDE DEF l, n
      <3> QED
        BY <3>1, <3>2, <3>3
    <2>2. l \in Seq(Texts) /\ Len(l) = n + 1 /\ DOMAIN l = 1 .. n + 1
          /\ (\A i \in 1 .. n : l[i] = used[i]) /\ l[n + 1] = t
      BY <2>1
    <2> HIDE DEF l, n
    <2>3. ToSet(l) = ToSet(used) \union {t}
      <3>1. {l[i] : i \in 1 .. n + 1} = {l[i] : i \in 1 .. n} \union {l[n + 1]}
        BY <1>0
      <3>2. {l[i] : i \in 1 .. n} = {used[i] : i \in 1 .. n}
        BY <2>2
      <3> QED
        BY <1>1, <2>2, <3>1, <3>2 DEF ToSet
    <2>4. IsInjective(l)
      <3>1. \A i \in 1 .. n : used[i] # t
        BY <1>1, <2>1 DEF ToSet
      <3>2. \A i \in 1 .. n + 1 : i \in 1 .. n \/ i = n + 1
        BY <1>0
      <3> SUFFICES ASSUME NEW i \in 1 .. n + 1, NEW j \in 1 .. n + 1, l[i] = l[j]
                   PROVE  i = j
        BY <2>2 DEF IsInjective
      <3>3. CASE i \in 1 .. n /\ j \in 1 .. n
        BY <1>1, <2>2, <3>3 DEF IsInjective
      <3> QED
        BY <2>2, <3>1, <3>2, <3>3
    <2>5. Len(l) <= Slots /\ Len(l) <= n + 1
      BY <1>0, <2>1, <2>2
    <2>6. t \in ToSet(l)
      BY <2>3
    <2> QED
      BY <2>1, <2>2, <2>3, <2>4, <2>5, <2>6 DEF l, n
  <1> QED
    BY <1>2, <1>3

\* What the list made from the alerts of b holds: a heading of each alert that takes part,
\* no text twice, and nothing that none of them says.
Faithful(list, active) ==
    /\ \A i \in DOMAIN active : active[i].title \in ToSet(list)
    /\ IsInjective(list)
    /\ \A t \in ToSet(list) : \E i \in DOMAIN active : Says(active[i], t)

LEMMA MessagesFacts ==
    ASSUME NEW b \in Seq(Alert)
    PROVE  /\ Messages(b) \in Seq(Texts) /\ Len(Messages(b)) <= Slots
           /\ Faithful(Messages(b), Active(b))
  <1> DEFINE active == Active(b)
             n == Len(active)
             places == n * (Rounds + 1)
             list == CHOOSE f : IsListing(f, active, places)
             Good(k) == /\ list[k] \in Seq(Texts) /\ Len(list[k]) <= Slots /\ Len(list[k]) <= k
                        /\ IsInjective(list[k])
                        /\ \A t \in ToSet(list[k]) : \E i \in DOMAIN active : Says(active[i], t)
                        /\ \A i \in 1 .. n : i <= k => active[i].title \in ToSet(list[k])
             S == {k \in Nat : k <= places => Good(k)}
  <1>1. active \in Seq(Alert) /\ n \in Nat /\ n <= Slots
    BY ActiveFacts
  <1>2. places \in Nat /\ n <= places
    <2> HIDE DEF n
    <2>1. Rounds \in Nat
      BY FooterAssumption
    <2>2. places = n * Rounds + n /\ n * Rounds \in Nat
      BY <1>1, <2>1
    <2> QED
      BY <1>1, <2>2
  <1>3. IsListing(list, active, places)
    BY <1>2, ListingExists
  <1>4. Messages(b) = list[places]
    BY DEF Messages, IsListing
  <1>d. DOMAIN active = 1 .. n /\ \A i \in 1 .. n : active[i] \in Alert
    BY <1>1
  <1> HIDE DEF active, n, places, list
  <1>5. list[0] = <<>>
    <2>1. 0 \in 0 .. places
      BY <1>2
    <2> QED
      BY <1>3, <2>1 DEF IsListing
  <1>6. ASSUME NEW k \in 1 .. places
        PROVE  list[k] = Listed(list[k - 1], Offered(active, k))
    <2>1. k \in 0 .. places /\ k # 0
      BY <1>2
    <2> QED
      BY <1>3, <2>1 DEF IsListing
  <1>7. 0 \in S
    <2>1. list[0] \in Seq(Texts) /\ Len(list[0]) = 0 /\ DOMAIN list[0] = {}
      BY <1>5
    <2>2. ToSet(list[0]) = {} /\ IsInjective(list[0])
      BY <2>1 DEF ToSet, IsInjective
    <2> QED
      BY <2>1, <2>2, FooterAssumption
  <1>8. ASSUME NEW k \in Nat, k \in S PROVE k + 1 \in S
    <2> SUFFICES ASSUME k + 1 <= places PROVE Good(k + 1)
      OBVIOUS
    <2> DEFINE used == list[k]
               t == Offered(active, k + 1)
               l == list[k + 1]
    <2>1. Good(k) /\ k + 1 \in 1 .. places /\ (k + 1) - 1 = k
      BY <1>2, <1>8
    <2>2. l = Listed(used, t)
      BY <1>6, <2>1
    <2>3. active # <<>>
      <3>1. CASE active = <<>>
        <4>1. n = 0
          BY <3>1 DEF n
        <4>2. places = 0
          BY <4>1, FooterAssumption DEF places
        <4> QED
          BY <4>2
      <3> QED
        BY <3>1
    <2>4. /\ t # NoText => \E i \in DOMAIN active : Says(active[i], t)
          /\ k + 1 <= n => t = active[k + 1].title
      <3>1. k + 1 \in Nat \ {0}
        OBVIOUS
      <3> HIDE DEF t
      <3> QED
        BY <1>1, <2>3, <3>1, OfferedFacts DEF t, n
    <2>5. t \in Texts \union {NoText}
      <3>1. ASSUME NEW i \in DOMAIN active, Says(active[i], t) PROVE t \in Texts
        <4>1. active[i] \in Alert
          BY <1>d
        <4>2. active[i].title \in Texts /\ active[i].text \in Seq(Texts)
          BY <4>1 DEF Alert
        <4> HIDE DEF t
        <4> QED
          BY <3>1, <4>2 DEF Says, ToSet
      <3> QED
        BY <2>4, <3>1
    <2> HIDE DEF t, l, used
    <2>6. used \in Seq(Texts) /\ Len(used) <= Slots /\ IsInjective(used) /\ Len(used) <= k
      BY <2>1 DEF used
    <2>7. /\ l \in Seq(Texts) /\ Len(l) <= Slots /\ Len(l) <= Len(used) + 1 /\ IsInjective(l)
          /\ ToSet(l) = ToSet(used) \/ (t # NoText /\ ToSet(l) = ToSet(used) \union {t})
          /\ Len(used) < Slots /\ t # NoText => t \in ToSet(l)
      BY <2>2, <2>5, <2>6, ListedFacts
    <2>8. Len(l) <= k + 1
      BY <2>6, <2>7
    <2>9. \A x \in ToSet(l) : \E i \in DOMAIN active : Says(active[i], x)
      BY <2>1, <2>4, <2>7 DEF used
    <2>10. ASSUME NEW i \in 1 .. n, i <= k + 1 PROVE active[i].title \in ToSet(l)
      <3>1. CASE i <= k
        BY <2>1, <2>7, <3>1 DEF used
      <3>2. CASE i = k + 1
        <4>1. t = active[i].title /\ active[i] \in Alert
          BY <1>1, <1>d, <2>4, <3>2
        <4>2. t # NoText
          BY <4>1, FooterAssumption DEF Alert
        <4>3. Len(used) < Slots
          BY <1>1, <2>6, <3>2, FooterAssumption
        <4> QED
          BY <2>7, <4>1, <4>2, <4>3
      <3> QED
        BY <1>1, <2>10, <3>1, <3>2
    <2> QED
      BY <2>7, <2>8, <2>9, <2>10 DEF l
  <1> HIDE DEF S
  <1>9. places \in S
    BY <1>2, <1>7, <1>8, SetInduction
  <1>10. Good(places)
    BY <1>2, <1>9 DEF S
  <1>11. \A i \in 1 .. n : active[i].title \in ToSet(list[places])
    BY <1>1, <1>2, <1>10
  <1> QED
    BY <1>4, <1>10, <1>11, <1>d DEF Faithful, active
-----------------------------------------------------------------------------
(* WarningFooter: the rotation.                                              *)

ShownTexts == Texts \cup {NoText}
Displays == [text : ShownTexts, elapsed : 0 .. MaxPeriod, refresh : BOOLEAN]

\* The rotation shows a message of the list or none.
LEMMA NextTextType ==
    ASSUME messages \in Seq(Texts), NEW current
    PROVE  NextText(current) \in ShownTexts
  <1> DEFINE n == Len(messages)
             at == {i \in DOMAIN messages : messages[i] = current}
  <1>1. n \in Nat
    OBVIOUS
  <1>2. CASE messages = <<>>
    BY <1>2 DEF NextText, ShownTexts
  <1>3. CASE messages # <<>> /\ at = {}
    <2>1. NextText(current) = messages[1] /\ n >= 1
      BY <1>3 DEF NextText
    <2> QED
      BY <2>1 DEF ShownTexts
  <1>4. CASE messages # <<>> /\ at # {}
    <2>1. NextText(current) = messages[(Min(at) % n) + 1] /\ n >= 1
      BY <1>4 DEF NextText
    <2>2. at \in SUBSET Nat
      OBVIOUS
    <2>3. Min(at) \in Nat
      <3> HIDE DEF at
      <3>1. \E x \in at : \A y \in at : x <= y
        BY <1>4, <2>2, LeastElement
      <3> QED
        BY <2>2, <3>1 DEF Min
    <2> HIDE DEF at, n
    <2>4. (Min(at) % n) + 1 \in 1 .. n
      BY <1>1, <2>1, <2>3
    <2>5. \A i \in 1 .. n : messages[i] \in Texts
      BY DEF n
    <2> QED
      BY <2>1, <2>4, <2>5 DEF ShownTexts
  <1> QED
    BY <1>2, <1>3, <1>4

\* The state of the footer: unless something plays, an empty display takes a message and
\* an elapsed one gives way, and whatever that changes asks for a redraw.
LEMMA FooterStateFacts ==
    ASSUME FooterTypes
    PROVE  /\ FooterState \in Displays
           /\ FooterState = display
              \/ /\ ~audio /\ FooterState.elapsed = 0
                 /\ display.text = NoText \/ Elapsed
                 /\ FooterState.refresh \/ FooterState.text = display.text
  <1>1. display \in Displays /\ messages \in Seq(Texts) /\ audio \in BOOLEAN /\ 0 \in 0 .. MaxPeriod
    BY FooterAssumption DEF FooterTypes, Displays, ShownTexts
  <1>2. CASE audio \/ ~(display.text = NoText \/ Elapsed)
    BY <1>1, <1>2 DEF FooterState, Advanced
  <1>3. CASE ~audio /\ (display.text = NoText \/ Elapsed)
    <2> DEFINE next == NextText(display.text)
               refresh == display.refresh \/ display.text # NoText \/ next # NoText
    <2>1. FooterState = [text |-> next, elapsed |-> 0, refresh |-> refresh]
      BY <1>3 DEF FooterState, Advanced
    <2>2. next \in ShownTexts
      BY <1>1, NextTextType
    <2>3. display.refresh \in BOOLEAN
      BY <1>1 DEF Displays
    <2>4. refresh \in BOOLEAN /\ (refresh \/ next = display.text)
      BY <2>3
    <2> HIDE DEF next, refresh
    <2>5. FooterState \in Displays
      BY <1>1, <2>1, <2>2, <2>4 DEF Displays
    <2>6. FooterState.elapsed = 0 /\ FooterState.refresh = refresh /\ FooterState.text = next
      BY <2>1
    <2> QED
      BY <1>3, <2>4, <2>5, <2>6
  <1> QED
    BY <1>2, <1>3

\* A warning on the panel is the one whose period runs, or the pass will draw again.
DrawOwed ==
    footer \in Texts =>
        footer = display.text \/ (pass.pc = "draw" /\ pass.mode = "clock" /\ pass.active)

FooterIInv == FooterTypes /\ HeadingsListed /\ DrawOwed

LEMMA ForecastAlerts == Forecasts \subseteq Seq(Alert) /\ <<>> \in Seq(Alert)
  <1>1. <<>> \in Seq(Alert)
    OBVIOUS
  <1>2. Forecasts \subseteq Seq([title : Texts, text : Seq(Texts), live : BOOLEAN])
    BY FooterAssumption
  <1> QED
    BY <1>1, <1>2 DEF Alert

LEMMA FooterInitHolds == FooterInit => FooterIInv
  <1> SUFFICES ASSUME FooterInit PROVE FooterIInv
    OBVIOUS
  <1>1. Active(<<>>) = <<>> /\ messages = <<>> /\ alerts = <<>>
    <2>1. IsTaken([i \in 0 .. 0 |-> <<>>], <<>>, 0)
      BY DEF IsTaken
    <2>2. \A f : IsTaken(f, <<>>, 0) => f[0] = <<>>
      BY DEF IsTaken
    <2>3. Active(<<>>) = (CHOOSE f : IsTaken(f, <<>>, 0))[0]
      BY DEF Active, IsTaken
    <2> QED
      BY <2>1, <2>2, <2>3 DEF FooterInit
  <1>2. FooterTypes
    <2>1. messages \in Seq(Texts) /\ Len(messages) = 0
      BY <1>1
    <2>2. 0 \in 0 .. MaxPeriod /\ Len(messages) <= Slots
      BY <2>1, FooterAssumption
    <2>3. display \in [text : Texts \cup {NoText}, elapsed : 0 .. MaxPeriod, refresh : BOOLEAN]
      BY <2>2 DEF FooterInit
    <2>4. pass \in [pc : {"take", "footer", "draw"}, mode : Screens, full : BOOLEAN,
                    active : BOOLEAN, last : Screens \cup {NoText}, ticked : BOOLEAN]
      BY DEF FooterInit, Screens
    <2> QED
      BY <1>1, <2>1, <2>2, <2>3, <2>4 DEF FooterInit, FooterTypes, Screens
  <1>3. HeadingsListed
    BY <1>1 DEF HeadingsListed, ToSet, IsInjective
  <1> QED
    BY <1>2, <1>3, FooterAssumption DEF FooterInit, FooterIInv, DrawOwed

\* The list that replaces the old one is made from the new alerts.
LEMMA ReceiveKeeps ==
    ASSUME FooterIInv, ReceiveWarnings
    PROVE  FooterIInv'
  <1>1. PICK b \in Forecasts : alerts' = b /\ messages' = Messages(b)
    BY DEF ReceiveWarnings
  <1>2. messages' \in Seq(Texts) /\ Len(messages') <= Slots /\ Faithful(messages', Active(b))
    BY <1>1, ForecastAlerts, MessagesFacts
  <1>3. HeadingsListed'
    BY <1>1, <1>2 DEF HeadingsListed, Faithful, Says
  <1>4. FooterTypes'
    BY <1>1, <1>2 DEF FooterIInv, FooterTypes, ReceiveWarnings
  <1> QED
    BY <1>3, <1>4 DEF FooterIInv, DrawOwed, ReceiveWarnings

LEMMA ListStands ==
    ASSUME HeadingsListed, UNCHANGED <<alerts, messages>>
    PROVE  HeadingsListed'
  BY DEF HeadingsListed

\* Deciding may take the next message; then the pass has a reason to draw it.
LEMMA DecideKeeps ==
    ASSUME FooterIInv, DecideFooter
    PROVE  FooterIInv'
  <1> USE DEF FooterIInv
  <1>1. HeadingsListed'
    BY ListStands DEF DecideFooter
  <1>2. CASE pass.mode = "clock"
    <2> DEFINE s == FooterState
    <2>1. PICK minute \in BOOLEAN, scrolling \in BOOLEAN :
            pass' = [pass EXCEPT !.pc = "draw",
                       !.full = @ \/ pass.mode # pass.last \/ minute,
                       !.active = s.refresh \/ scrolling \/ (~audio /\ s.text \in Wide)]
      BY <1>2 DEF DecideFooter
    <2>2. display' = [s EXCEPT !.refresh = FALSE]
      BY <1>2 DEF DecideFooter
    <2>3. s \in Displays /\ (s = display \/ s.refresh \/ s.text = display.text)
      BY FooterStateFacts
    <2> HIDE DEF s
    <2>4. s.refresh \in BOOLEAN /\ audio \in BOOLEAN /\ pass.full \in BOOLEAN
          /\ pass \in [pc : {"take", "footer", "draw"}, mode : Screens, full : BOOLEAN,
                       active : BOOLEAN, last : Screens \cup {NoText}, ticked : BOOLEAN]
      BY <2>3 DEF Displays, FooterTypes
    <2> DEFINE full == pass.full \/ pass.mode # pass.last \/ minute
               active == s.refresh \/ scrolling \/ (~audio /\ s.text \in Wide)
    <2>5. full \in BOOLEAN /\ active \in BOOLEAN /\ (s.refresh => active)
      BY <2>4
    <2>6. pass' = [pass EXCEPT !.pc = "draw", !.full = full, !.active = active]
      BY <2>1
    <2> HIDE DEF full, active
    <2>7. FooterTypes'
      BY <2>2, <2>3, <2>4, <2>5, <2>6 DEF FooterTypes, DecideFooter, Displays, ShownTexts
    <2>8. display'.text = s.text /\ pass'.pc = "draw" /\ pass'.mode = "clock" /\ pass'.active = active
      BY <1>2, <2>2, <2>3, <2>4, <2>6 DEF Displays
    <2>9. footer' = footer /\ ~(pass.pc = "draw")
      BY DEF DecideFooter
    <2> QED
      BY <1>1, <2>3, <2>5, <2>7, <2>8, <2>9 DEF DrawOwed
  <1>3. CASE pass.mode # "clock"
    <2>1. pass' = [pass EXCEPT !.pc = "draw", !.full = @ \/ pass.mode # pass.last, !.active = FALSE]
          /\ display' = display /\ footer' = footer /\ pass.pc = "footer"
      BY <1>3 DEF DecideFooter
    <2>2. FooterTypes'
      BY <2>1 DEF FooterTypes, DecideFooter
    <2> QED
      BY <1>1, <2>1, <2>2 DEF DrawOwed
  <1> QED
    BY <1>2, <1>3

\* Drawing evaluates the state again and shows what that evaluation leaves.
LEMMA DrawKeeps ==
    ASSUME FooterIInv, DrawFooter
    PROVE  FooterIInv'
  <1> USE DEF FooterIInv
  <1>1. HeadingsListed'
    BY ListStands DEF DrawFooter
  <1>2. pass' \in [pc : {"take", "footer", "draw"}, mode : Screens, full : BOOLEAN,
                   active : BOOLEAN, last : Screens \cup {NoText}, ticked : BOOLEAN]
    BY DEF DrawFooter, FooterTypes
  <1>3. CASE pass.mode = "clock" /\ (pass.full \/ pass.active)
    <2>1. display' = FooterState /\ footer' = FooterText(FooterState) /\ FooterState \in Displays
      BY <1>3, FooterStateFacts DEF DrawFooter
    <2>2. FooterText(FooterState) \in {"audio", "date", FooterState.text}
          /\ (FooterText(FooterState) = NoText => FooterState.text # NoText)
      BY DEF FooterText, NoText
    <2>3. FooterTypes'
      BY <1>2, <2>1, <2>2 DEF FooterTypes, DrawFooter, Displays, ShownTexts
    <2> QED
      BY <1>1, <2>1, <2>2, <2>3, FooterAssumption DEF DrawOwed
  <1>4. CASE ~(pass.mode = "clock" /\ (pass.full \/ pass.active))
    <2>1. display' = display /\ footer' \in {NoText, footer}
      BY <1>4 DEF DrawFooter
    <2>2. FooterTypes'
      BY <1>2, <2>1 DEF FooterTypes, DrawFooter
    <2> QED
      BY <1>1, <1>4, <2>1, <2>2, FooterAssumption DEF DrawOwed
  <1> QED
    BY <1>3, <1>4

\* One step for each action of the footer.
LEMMA FooterStep == FooterIInv /\ [FooterNext]_footerVars => FooterIInv'
  <1> SUFFICES ASSUME FooterIInv, [FooterNext]_footerVars PROVE FooterIInv'
    OBVIOUS
  <1> USE DEF FooterIInv
  <1>1. CASE AnnounceList
    <2>1. HeadingsListed' /\ DrawOwed'
      BY <1>1, ListStands DEF AnnounceList, DrawOwed
    <2>2. FooterTypes'
      BY <1>1 DEF AnnounceList, FooterTypes
    <2> QED
      BY <2>1, <2>2
  <1>2. CASE SessionShown
    BY <1>2, ListStands DEF SessionShown, FooterTypes, DrawOwed
  <1>3. CASE ChangeMode
    BY <1>3, ListStands DEF ChangeMode, FooterTypes, DrawOwed
  <1>4. CASE FooterTick
    <2>1. FooterTypes'
      <3>1. display' = [display EXCEPT !.elapsed = display.elapsed + 1]
            /\ pass' = [pass EXCEPT !.ticked = TRUE]
        BY <1>4 DEF FooterTick
      <3>2. display.elapsed \in 0 .. MaxPeriod /\ display.elapsed < MaxPeriod
        BY <1>4 DEF FooterTick, FooterTypes
      <3>3. display.elapsed + 1 \in 0 .. MaxPeriod
        BY <3>2, FooterAssumption
      <3>4. display' \in [text : Texts \cup {NoText}, elapsed : 0 .. MaxPeriod, refresh : BOOLEAN]
        BY <3>1, <3>3 DEF FooterTypes
      <3>5. pass' \in [pc : {"take", "footer", "draw"}, mode : Screens, full : BOOLEAN,
                       active : BOOLEAN, last : Screens \cup {NoText}, ticked : BOOLEAN]
        BY <3>1 DEF FooterTypes
      <3> QED
        BY <1>4, <3>4, <3>5 DEF FooterTick, FooterTypes
    <2>2. display'.text = display.text /\ pass'.pc = pass.pc /\ pass'.mode = pass.mode
          /\ pass'.active = pass.active /\ footer' = footer
      BY <1>4 DEF FooterTick, FooterTypes
    <2> QED
      BY <1>4, <2>1, <2>2, ListStands DEF FooterTick, DrawOwed
  <1>5. CASE TakeState
    BY <1>5, ListStands DEF TakeState, FooterTypes, DrawOwed
  <1>6. CASE UNCHANGED footerVars
    BY <1>6, ListStands DEF footerVars, FooterTypes, DrawOwed
  <1> QED
    BY <1>1, <1>2, <1>3, <1>4, <1>5, <1>6, ReceiveKeeps, DecideKeeps, DrawKeeps
    DEF FooterNext, MainLoop

\* Every live alert has its heading in the list, once, nothing else is listed but what an
\* alert says, and at the end of a pass the panel shows the message whose period runs.
THEOREM FooterCorrect == FooterSpec => []FooterInv
  <1>1. FooterIInv => FooterInv
    BY DEF FooterIInv, FooterInv, DrawOwed, PanelAgrees
  <1> QED
    BY <1>1, FooterInitHolds, FooterStep, PTL DEF FooterSpec

\* A message gives way or starts again only after its period, whatever happens in between.
THEOREM FooterPeriods == FooterSpec => PeriodKept
  <1> DEFINE Kept == display.text # NoText
                     /\ (display'.text # display.text \/ display'.elapsed < display.elapsed)
                         => display.elapsed >= Period[display.text]
  <1>1. ASSUME FooterIInv, [FooterNext]_footerVars PROVE [Kept]_footerVars
    <2> USE DEF FooterIInv
    <2>0. display \in Displays /\ display.elapsed \in Nat
      BY <1>1, FooterAssumption DEF FooterTypes, Displays, ShownTexts
    <2>1. CASE display' = display
      BY <2>0, <2>1
    <2>2. CASE FooterTick
      <3>1. display'.text = display.text /\ display'.elapsed = display.elapsed + 1
        BY <2>0, <2>2 DEF FooterTick, Displays
      <3> QED
        BY <2>0, <3>1
    <2>3. CASE display'.text = FooterState.text /\ display'.elapsed = FooterState.elapsed
      <3>1. FooterState = display \/ display.text = NoText \/ Elapsed
        BY <1>1, FooterStateFacts
      <3>2. CASE FooterState = display
        BY <2>0, <2>3, <3>2
      <3>3. CASE Elapsed
        BY <3>3 DEF Elapsed
      <3> QED
        BY <3>1, <3>2, <3>3
    <2>4. CASE DecideFooter
      <3>1. FooterState \in Displays
        BY <1>1, FooterStateFacts
      <3>2. display' = display \/ display' = [FooterState EXCEPT !.refresh = FALSE]
        BY <2>4 DEF DecideFooter
      <3> QED
        BY <2>1, <2>3, <3>1, <3>2 DEF Displays
    <2>5. CASE DrawFooter
      BY <2>1, <2>3, <2>5 DEF DrawFooter
    <2> QED
      BY <1>1, <2>1, <2>2, <2>4, <2>5 DEF FooterNext, MainLoop, footerVars, ReceiveWarnings,
         AnnounceList, SessionShown, ChangeMode, TakeState
  <1> QED
    BY <1>1, FooterInitHolds, FooterStep, PTL DEF FooterSpec, PeriodKept

-----------------------------------------------------------------------------
(* TodayForecast: temperatures, and the places in a bulletin.                *)

Degrees == (-99) .. None

\* Temperatures are bounded, so that a set of them has a coldest one.
LEMMA ColdestFacts ==
    ASSUME NEW T \in SUBSET Degrees, T # {}
    PROVE  Min(T) \in T /\ \A t \in T : Min(T) <= t
  <1> DEFINE shifted == {t + 99 : t \in T}
  <1>1. \A t \in T : t \in Int /\ t + 99 \in Nat
    BY DEF Degrees, None
  <1>2. shifted \in SUBSET Nat /\ shifted # {}
    BY <1>1
  <1>3. PICK x \in shifted : \A y \in shifted : x <= y
    BY <1>2, LeastElement
  <1>4. PICK m \in T : x = m + 99
    BY <1>3
  <1>5. \A t \in T : m <= t
    <2>1. \A t \in T : m + 99 <= t + 99
      BY <1>3, <1>4
    <2> QED
      BY <1>1, <2>1
  <1> QED
    BY <1>5 DEF Min

\* DaytimeIndex and NightIndex find the first period that matches, or none.
LEMMA DaytimeFirst ==
    ASSUME NEW b, NEW d, NEW today, Len(b.periods) \in Nat
    PROVE  LET i == DaytimeIndex(b, d, today)
               n == Len(b.periods)
           IN  \/ i = 0 /\ \A j \in 1 .. n : ~MatchesDaytime(b.periods[j], d, today)
               \/ /\ i \in 1 .. n /\ MatchesDaytime(b.periods[i], d, today)
                  /\ \A j \in 1 .. n : MatchesDaytime(b.periods[j], d, today) => i <= j
  <1> DEFINE n == Len(b.periods)
             I == {j \in 1 .. n : MatchesDaytime(b.periods[j], d, today)}
             i == DaytimeIndex(b, d, today)
  <1>1. i = IF I # {} THEN Min(I) ELSE 0
    BY DEF DaytimeIndex, SelectInSeq
  <1> HIDE DEF i
  <1>2. I # {} => Min(I) \in I /\ \A j \in I : Min(I) <= j
    <2> HIDE DEF I
    <2>1. I \in SUBSET Nat
      BY DEF I
    <2>2. I # {} => \E x \in I : \A y \in I : x <= y
      BY <2>1, LeastElement
    <2> QED
      BY <2>1, <2>2 DEF Min
  <1> QED
    BY <1>1, <1>2 DEF i

LEMMA NightFirst ==
    ASSUME NEW b, NEW d, Len(b.periods) \in Nat
    PROVE  LET i == NightIndex(b, d)
               n == Len(b.periods)
           IN  \/ i = 0 /\ \A j \in 1 .. n : ~MatchesTonight(b.periods[j], d)
               \/ /\ i \in 1 .. n /\ MatchesTonight(b.periods[i], d)
                  /\ \A j \in 1 .. n : MatchesTonight(b.periods[j], d) => i <= j
  <1> DEFINE n == Len(b.periods)
             I == {j \in 1 .. n : MatchesTonight(b.periods[j], d)}
             i == NightIndex(b, d)
  <1>1. i = IF I # {} THEN Min(I) ELSE 0
    BY DEF NightIndex, SelectInSeq
  <1> HIDE DEF i
  <1>2. I # {} => Min(I) \in I /\ \A j \in I : Min(I) <= j
    <2> HIDE DEF I
    <2>1. I \in SUBSET Nat
      BY DEF I
    <2>2. I # {} => \E x \in I : \A y \in I : x <= y
      BY <2>1, LeastElement
    <2> QED
      BY <2>1, <2>2 DEF Min
  <1> QED
    BY <1>1, <1>2 DEF i
-----------------------------------------------------------------------------
\* Quarters and dates.
LEMMA QuarterFacts ==
    ASSUME NEW u \in Nat
    PROVE  Day(u) \in Nat /\ u % 4 \in 0 .. 3 /\ u = 4 * Day(u) + (u % 4)
  <1>1. Day(u) \in Nat
    BY DEF Day
  <1>2. u % 4 \in 0 .. 3
    OBVIOUS
  <1>3. u = 4 * (u \div 4) + (u % 4)
    OBVIOUS
  <1> QED
    BY <1>1, <1>2, <1>3 DEF Day

LEMMA DayMonotone ==
    ASSUME NEW u \in Nat, NEW v \in Nat, v <= u
    PROVE  Day(v) <= Day(u)
  <1>1. Day(v) \in Nat /\ Day(u) \in Nat
    BY DEF Day
  <1>2. v % 4 \in 0 .. 3 /\ v = 4 * Day(v) + (v % 4)
    BY QuarterFacts
  <1>3. u % 4 \in 0 .. 3 /\ u = 4 * Day(u) + (u % 4)
    BY QuarterFacts
  <1> QED
    BY <1>1, <1>2, <1>3

\* The dates that a run of the quarter u speaks of are modelled.
LEMMA DatesFacts ==
    ASSUME NEW u \in Begin .. End
    PROVE  /\ Day(u) \in Dates /\ Day(u) + 1 \in Dates /\ Day(u) \in Nat /\ Day(u) # 0
           /\ u \in Nat /\ Dates \subseteq Nat
           /\ \A e \in Int : Day(u) - 1 < e /\ e <= Day(u) + 2 => e \in Dates
  <1>1. u \in Nat /\ Begin \in Nat /\ End \in Nat /\ 4 <= Begin
    BY TodayAssumption
  <1>2. Day(u) \in Nat /\ Day(Begin) \in Nat /\ Day(End) \in Nat
    BY <1>1, QuarterFacts
  <1>3. Day(Begin) <= Day(u) /\ Day(u) <= Day(End)
    BY <1>1, DayMonotone
  <1>4. Day(Begin) # 0
    BY <1>1 DEF Day
  <1> QED
    BY <1>1, <1>2, <1>3, <1>4 DEF Dates

\* Temperatures are numbers, and none is warmer than None.
LEMMA TemperatureTypes ==
    /\ Temperatures \subseteq Degrees /\ None \in Temperatures /\ Lows \subseteq Temperatures
    /\ None \notin Lows /\ \A t \in Temperatures : t \in Int /\ t <= None
  <1>1. Lows \subseteq (-99) .. (None - 25) /\ None = 99
    BY TodayAssumption DEF None
  <1>2. \A l \in Lows, d \in Dates : HighOn(l, d) \in Degrees
    <2> SUFFICES ASSUME NEW l \in Lows, NEW d \in Dates
                 PROVE  HighOn(l, d) \in Degrees
      OBVIOUS
    <2>1. d \in Int
      BY DEF Dates
    <2>2. d % 4 \in 0 .. 3
      BY <2>1
    <2> QED
      BY <1>1, <2>2 DEF HighOn, Degrees
  <1>3. Temperatures \subseteq Degrees
    <2>1. Lows \subseteq Degrees /\ None \in Degrees
      BY <1>1 DEF Degrees
    <2> QED
      BY <1>2, <2>1 DEF Temperatures
  <1>4. None \in Temperatures /\ Lows \subseteq Temperatures
    BY DEF Temperatures
  <1>5. None \notin Lows
    BY <1>1
  <1>6. \A t \in Temperatures : t \in Int /\ t <= None
    BY <1>3 DEF Degrees, None
  <1> QED
    BY <1>3, <1>4, <1>5, <1>6

-----------------------------------------------------------------------------
(* TodayForecast: the three pages.                                           *)

IsDaytime(p, name, of) ==
    p.name = name /\ p.of = of /\ ~p.isLow /\ p.t \in Temperatures
IsNight(p, name, of) ==
    p.name = name /\ p.of = of /\ p.isLow /\ p.t \in Lows \union {None}

\* What Say makes of one entry of a form.
PeriodOf(name, of, t) ==
    [name |-> name, of |-> of, isLow |-> name \in {"Tonight", "night"}, t |-> t]
Number(r, i, name, of, gap) ==
    IF i \in gap THEN None
    ELSE IF name \in {"Tonight", "night"} THEN (IF i <= 2 THEN r[1] ELSE r[2])
    ELSE HighOn(r[1], of)

LEMMA PeriodSays ==
    ASSUME NEW r \in Readings, NEW i, NEW gap, NEW name, NEW of \in Dates
    PROVE  LET p == PeriodOf(name, of, Number(r, i, name, of, gap))
           IN  /\ name \in {"Today", "day"} => IsDaytime(p, name, of)
               /\ name \in {"Tonight", "night"} => IsNight(p, name, of)
  <1> DEFINE t == Number(r, i, name, of, gap)
             p == PeriodOf(name, of, t)
  <1>1. r[1] \in Lows /\ r[2] \in Lows
    BY TodayAssumption
  <1>2. HighOn(r[1], of) \in Temperatures /\ None \in Temperatures
    BY <1>1 DEF Temperatures
  <1>3. /\ name \in {"Today", "day"} => t \in Temperatures
        /\ name \in {"Tonight", "night"} => t \in Lows \union {None}
    BY <1>1, <1>2 DEF Number
  <1> HIDE DEF t
  <1>4. p.name = name /\ p.of = of /\ p.t = t /\ p.isLow = (name \in {"Tonight", "night"})
    BY DEF PeriodOf
  <1>5. name \in {"Today", "day"} => ~p.isLow
    BY <1>4
  <1>6. name \in {"Tonight", "night"} => p.isLow
    BY <1>4
  <1> HIDE DEF p
  <1>7. name \in {"Today", "day"} => IsDaytime(p, name, of)
    BY <1>3, <1>4, <1>5 DEF IsDaytime
  <1>8. name \in {"Tonight", "night"} => IsNight(p, name, of)
    BY <1>3, <1>4, <1>6 DEF IsNight
  <1> QED
    BY <1>7, <1>8 DEF p, t

\* The night that is still on before the first date has no date of its own.
LEMMA OutgoingSays ==
    ASSUME NEW r \in Readings, NEW i, NEW gap, NEW of
    PROVE  IsNight(PeriodOf("Tonight", of, Number(r, i, "Tonight", of, gap)), "Tonight", of)
  <1> DEFINE t == Number(r, i, "Tonight", of, gap)
             p == PeriodOf("Tonight", of, t)
  <1>1. t \in Lows \union {None}
    <2>1. r[1] \in Lows /\ r[2] \in Lows
      BY TodayAssumption
    <2> QED
      BY <2>1 DEF Number
  <1> HIDE DEF t
  <1>2. p.name = "Tonight" /\ p.of = of /\ p.t = t /\ p.isLow
    BY DEF PeriodOf
  <1> HIDE DEF p
  <1> QED
    BY <1>1, <1>2 DEF IsNight, p, t

\* A page has its periods, whichever of them have no number.
IsDayPage(ps, d) ==
    /\ Len(ps) = 4 /\ DOMAIN ps = 1 .. 4
    /\ IsDaytime(ps[1], "Today", d) /\ IsNight(ps[2], "Tonight", d)
    /\ IsDaytime(ps[3], "day", d + 1) /\ IsNight(ps[4], "night", d + 1)

IsEarlyPage(ps, d) ==
    /\ Len(ps) = 5 /\ DOMAIN ps = 1 .. 5
    /\ IsNight(ps[1], "Tonight", d - 1)
    /\ IsDaytime(ps[2], "day", d) /\ IsNight(ps[3], "night", d)
    /\ IsDaytime(ps[4], "day", d + 1) /\ IsNight(ps[5], "night", d + 1)

IsEveningPage(ps, d) ==
    /\ Len(ps) = 3 /\ DOMAIN ps = 1 .. 3
    /\ IsNight(ps[1], "Tonight", d)
    /\ IsDaytime(ps[2], "day", d + 1) /\ IsNight(ps[3], "night", d + 1)

LEMMA DayPageSays ==
    ASSUME NEW d \in Dates, d + 1 \in Dates, NEW r \in Readings, NEW gap
    PROVE  IsDayPage(Say(DayPage(d), r, gap), d)
  <1> DEFINE f == DayPage(d)
             ps == Say(f, r, gap)
  <1>1. /\ f[1] = <<"Today", d>> /\ f[2] = <<"Tonight", d>> /\ f[3] = <<"day", d + 1>>
        /\ f[4] = <<"night", d + 1>> /\ DOMAIN f = 1 .. 4 /\ Len(f) = 4
    BY DEF DayPage
  <1> HIDE DEF f
  <1>2. ps = [i \in 1 .. 4 |-> PeriodOf(f[i][1], f[i][2], Number(r, i, f[i][1], f[i][2], gap))]
    BY <1>1 DEF Say, PeriodOf, Number
  <1> HIDE DEF ps
  <1>3. Len(ps) = 4 /\ DOMAIN ps = 1 .. 4
    BY <1>2
  <1>4. IsDaytime(ps[1], "Today", d) /\ IsNight(ps[2], "Tonight", d)
    BY <1>1, <1>2, PeriodSays
  <1>5. IsDaytime(ps[3], "day", d + 1) /\ IsNight(ps[4], "night", d + 1)
    <2>1. ps[3] = PeriodOf("day", d + 1, Number(r, 3, "day", d + 1, gap))
          /\ ps[4] = PeriodOf("night", d + 1, Number(r, 4, "night", d + 1, gap))
      BY <1>1, <1>2
    <2> QED
      BY <2>1, PeriodSays
  <1> QED
    BY <1>3, <1>4, <1>5 DEF IsDayPage, ps, f

LEMMA EarlyPageSays ==
    ASSUME NEW d \in Dates, d + 1 \in Dates, NEW r \in Readings, NEW gap
    PROVE  IsEarlyPage(Say(EarlyPage(d), r, gap), d)
  <1> DEFINE f == EarlyPage(d)
             ps == Say(f, r, gap)
  <1>1. /\ f[1] = <<"Tonight", d - 1>> /\ f[2] = <<"day", d>> /\ f[3] = <<"night", d>>
        /\ f[4] = <<"day", d + 1>> /\ f[5] = <<"night", d + 1>> /\ DOMAIN f = 1 .. 5 /\ Len(f) = 5
    BY DEF EarlyPage
  <1> HIDE DEF f
  <1>2. ps = [i \in 1 .. 5 |-> PeriodOf(f[i][1], f[i][2], Number(r, i, f[i][1], f[i][2], gap))]
    BY <1>1 DEF Say, PeriodOf, Number
  <1> HIDE DEF ps
  <1>3. Len(ps) = 5 /\ DOMAIN ps = 1 .. 5
    BY <1>2
  <1>4. IsNight(ps[1], "Tonight", d - 1)
    <2>1. ps[1] = PeriodOf("Tonight", d - 1, Number(r, 1, "Tonight", d - 1, gap))
      BY <1>1, <1>2
    <2> QED
      BY <2>1, OutgoingSays
  <1>5. IsDaytime(ps[2], "day", d) /\ IsNight(ps[3], "night", d)
    BY <1>1, <1>2, PeriodSays
  <1>6. IsDaytime(ps[4], "day", d + 1) /\ IsNight(ps[5], "night", d + 1)
    <2>1. ps[4] = PeriodOf("day", d + 1, Number(r, 4, "day", d + 1, gap))
          /\ ps[5] = PeriodOf("night", d + 1, Number(r, 5, "night", d + 1, gap))
      BY <1>1, <1>2
    <2> QED
      BY <2>1, PeriodSays
  <1> QED
    BY <1>3, <1>4, <1>5, <1>6 DEF IsEarlyPage, ps, f

LEMMA EveningPageSays ==
    ASSUME NEW d \in Dates, d + 1 \in Dates, NEW r \in Readings, NEW gap
    PROVE  IsEveningPage(Say(EveningPage(d), r, gap), d)
  <1> DEFINE f == EveningPage(d)
             ps == Say(f, r, gap)
  <1>1. /\ f[1] = <<"Tonight", d>> /\ f[2] = <<"day", d + 1>> /\ f[3] = <<"night", d + 1>>
        /\ DOMAIN f = 1 .. 3 /\ Len(f) = 3
    BY DEF EveningPage
  <1> HIDE DEF f
  <1>2. ps = [i \in 1 .. 3 |-> PeriodOf(f[i][1], f[i][2], Number(r, i, f[i][1], f[i][2], gap))]
    BY <1>1 DEF Say, PeriodOf, Number
  <1> HIDE DEF ps
  <1>3. Len(ps) = 3 /\ DOMAIN ps = 1 .. 3
    BY <1>2
  <1>4. IsNight(ps[1], "Tonight", d)
    BY <1>1, <1>2, PeriodSays
  <1>5. IsDaytime(ps[2], "day", d + 1) /\ IsNight(ps[3], "night", d + 1)
    <2>1. ps[2] = PeriodOf("day", d + 1, Number(r, 2, "day", d + 1, gap))
          /\ ps[3] = PeriodOf("night", d + 1, Number(r, 3, "night", d + 1, gap))
      BY <1>1, <1>2
    <2> QED
      BY <2>1, PeriodSays
  <1> QED
    BY <1>3, <1>4, <1>5 DEF IsEveningPage, ps, f

\* b is a bulletin of the quarter v: a page of that quarter, and hours up to a day ahead.
Issued(b, v) ==
    /\ b.src \in Sources /\ b.on = Day(v)
    /\ \A n \in DOMAIN b.cold : b.cold[n].at \in Night(n) /\ b.cold[n].at \in v .. v + 4
    /\ \/ v % 4 # 3 /\ IsDayPage(b.periods, Day(v))
       \/ v % 4 = 0 /\ IsEarlyPage(b.periods, Day(v))
       \/ v % 4 = 3 /\ IsEveningPage(b.periods, Day(v))

\* A bulletin of a quarter has one of the forms of that quarter.
LEMMA BulletinIssued ==
    ASSUME NEW v \in Begin .. End, NEW b \in Bulletins[v]
    PROVE  Issued(b, v)
  <1>0. v \in Nat /\ Day(v) \in Dates /\ Day(v) + 1 \in Dates /\ v % 4 \in 0 .. 3
    <2>1. v \in Nat
      BY TodayAssumption
    <2> QED
      BY <2>1, DatesFacts, QuarterFacts
  <1> DEFINE Pages(u, form, r) ==
          {[src |-> s, on |-> Day(u), periods |-> Say(form, r, gap), cold |-> cold] :
             s \in Sources, gap \in Gaps, cold \in Coldest(u, r)}
  <1>a. PICK form \in Forms(v), r \in Readings : b \in Pages(v, form, r)
    <2>1. Bulletins = [u \in Begin .. End |->
                         UNION {Pages(u, form, r) : form \in Forms(u), r \in Readings}]
      BY DEF Bulletins
    <2> HIDE DEF Pages
    <2> QED
      BY <2>1
  <1>1. PICK s \in Sources, gap \in Gaps, cold \in Coldest(v, r) :
          b = [src |-> s, on |-> Day(v), periods |-> Say(form, r, gap), cold |-> cold]
    BY <1>a
  <1> HIDE DEF Pages
  <1>2. b.src \in Sources /\ b.on = Day(v) /\ b.periods = Say(form, r, gap) /\ b.cold = cold
    BY <1>1
  <1>3. ASSUME NEW n \in DOMAIN cold
        PROVE  cold[n].at \in Night(n) /\ cold[n].at \in v .. v + 4
    <2>1. PICK h \in [NightsAhead(v) -> v .. v + 4] :
            /\ \A m \in NightsAhead(v) : h[m] \in Night(m)
            /\ cold = [m \in NightsAhead(v) |->
                         [at |-> h[m], t |-> IF m = Min(NightsAhead(v)) THEN r[3] ELSE r[4]]]
      BY DEF Coldest
    <2>2. n \in NightsAhead(v) /\ cold[n].at = h[n]
      BY <1>3, <2>1
    <2> QED
      BY <2>1, <2>2
  <1>4. CASE v % 4 = 3
    <2>1. form = EveningPage(Day(v))
      BY <1>4 DEF Forms
    <2> QED
      BY <1>0, <1>2, <1>3, <1>4, <2>1, EveningPageSays DEF Issued
  <1>5. CASE v % 4 # 3
    <2>1. form = DayPage(Day(v)) \/ (v % 4 = 0 /\ form = EarlyPage(Day(v)))
      BY <1>0, <1>5 DEF Forms
    <2> QED
      BY <1>0, <1>2, <1>3, <1>5, <2>1, DayPageSays, EarlyPageSays DEF Issued
  <1> QED
    BY <1>4, <1>5

\* The periods of an issued bulletin are a sequence; a low is one of Lows, or no number.
LEMMA PeriodTypes ==
    ASSUME NEW b, NEW v, Issued(b, v)
    PROVE  /\ Len(b.periods) \in Nat /\ DOMAIN b.periods = 1 .. Len(b.periods)
           /\ \A i \in DOMAIN b.periods :
                /\ b.periods[i].t \in Temperatures
                /\ b.periods[i].isLow => b.periods[i].t \in Lows \union {None}
  <1>1. Lows \subseteq Temperatures /\ None \in Temperatures
    BY TemperatureTypes
  <1>2. CASE IsDayPage(b.periods, Day(v))
    <2>1. DOMAIN b.periods = {1, 2, 3, 4} /\ Len(b.periods) = 4
      BY <1>2 DEF IsDayPage
    <2> QED
      BY <1>1, <1>2, <2>1 DEF IsDayPage, IsDaytime, IsNight
  <1>3. CASE IsEarlyPage(b.periods, Day(v))
    <2>1. DOMAIN b.periods = {1, 2, 3, 4, 5} /\ Len(b.periods) = 5
      BY <1>3 DEF IsEarlyPage
    <2> QED
      BY <1>1, <1>3, <2>1 DEF IsEarlyPage, IsDaytime, IsNight
  <1>4. CASE IsEveningPage(b.periods, Day(v))
    <2>1. DOMAIN b.periods = {1, 2, 3} /\ Len(b.periods) = 3
      BY <1>4 DEF IsEveningPage
    <2> QED
      BY <1>1, <1>4, <2>1 DEF IsEveningPage, IsDaytime, IsNight
  <1> QED
    BY <1>2, <1>3, <1>4 DEF Issued

\* The high and the low that the code finds for a date are temperatures.
LEMMA FoundTypes ==
    ASSUME NEW v, NEW b, Issued(b, v), NEW d, NEW today
    PROVE  /\ DaytimeIndex(b, d, today) # 0 =>
                 /\ b.periods[DaytimeIndex(b, d, today)].t \in Temperatures
                 /\ b.periods[DaytimeIndex(b, d, today)].t # None
           /\ NightIndex(b, d) # 0 =>
                 /\ NightIndex(b, d) \in DOMAIN b.periods
                 /\ MatchesTonight(b.periods[NightIndex(b, d)], d)
                 /\ b.periods[NightIndex(b, d)].t \in Lows
  <1>1. Len(b.periods) \in Nat /\ DOMAIN b.periods = 1 .. Len(b.periods)
    BY PeriodTypes
  <1>2. ASSUME DaytimeIndex(b, d, today) # 0
        PROVE  /\ b.periods[DaytimeIndex(b, d, today)].t \in Temperatures
               /\ b.periods[DaytimeIndex(b, d, today)].t # None
    <2>1. /\ DaytimeIndex(b, d, today) \in DOMAIN b.periods
          /\ MatchesDaytime(b.periods[DaytimeIndex(b, d, today)], d, today)
      BY <1>1, <1>2, DaytimeFirst
    <2> QED
      BY <2>1, PeriodTypes DEF MatchesDaytime
  <1>3. ASSUME NightIndex(b, d) # 0
        PROVE  /\ NightIndex(b, d) \in DOMAIN b.periods
               /\ MatchesTonight(b.periods[NightIndex(b, d)], d)
               /\ b.periods[NightIndex(b, d)].t \in Lows
    <2>1. /\ NightIndex(b, d) \in DOMAIN b.periods
          /\ MatchesTonight(b.periods[NightIndex(b, d)], d)
      BY <1>1, <1>3, NightFirst
    <2> QED
      BY <2>1, PeriodTypes DEF MatchesTonight
  <1> QED
    BY <1>2, <1>3
-----------------------------------------------------------------------------
(* TodayForecast: the lows that are taken, and the nights they are of.       *)

\* A low that is dated by the coldest hour of its own night is learnt for that date.
LEMMA OwnNight ==
    ASSUME NEW b, NEW i \in DOMAIN b.periods, b.periods[i].isLow, b.periods[i].t # None,
           NEW e \in OfNight(b, b.periods[i].t, b.periods[i].of)
    PROVE  <<b.src, e, b.periods[i].t>> \in Learnt(b)
  <1> DEFINE p == b.periods[i]
  <1>1. p \in Range(b.periods)
    BY DEF Range
  <1>2. p.of \in DOMAIN b.cold /\ b.cold[p.of].t - p.t \in -1 .. 1 /\ e = Day(b.cold[p.of].at)
    BY DEF OfNight
  <1> HIDE DEF p
  <1>3. p.isLow /\ p.t # None
    BY DEF p
  <1> QED
    BY <1>1, <1>2, <1>3 DEF Learnt, p

\* The hours of a bulletin reach neither before its date nor past the end of the next one,
\* and those of a night lie on two dates.
LEMMA HourFacts ==
    ASSUME NEW v \in Nat, NEW b, Issued(b, v), NEW low, NEW n \in Int, NEW e \in OfNight(b, low, n)
    PROVE  e \in Nat /\ Day(v) <= e /\ e <= Day(v) + 1 /\ e \in {n, n + 1}
  <1>1. n \in DOMAIN b.cold /\ e = Day(b.cold[n].at)
    BY DEF OfNight
  <1> DEFINE at == b.cold[n].at
  <1>2. at \in Night(n) /\ at \in v .. v + 4 /\ at \in Nat
    BY <1>1 DEF Issued
  <1> HIDE DEF at
  <1>3. e \in Nat /\ at % 4 \in 0 .. 3 /\ at = 4 * e + (at % 4)
    BY <1>1, <1>2, QuarterFacts DEF at
  <1>4. Day(v) \in Nat /\ v % 4 \in 0 .. 3 /\ v = 4 * Day(v) + (v % 4)
    BY QuarterFacts
  <1> QED
    BY <1>2, <1>3, <1>4 DEF Night

\* The night that night_low_occurrence takes a low for.
LEMMA OccursIs ==
    ASSUME NEW b, NEW low, NEW night, NEW daytime, NEW d, NEW early
    PROVE  /\ daytime # 0 /\ night < daytime =>
                Occurs(b, low, night, daytime, d, early) = OfNight(b, low, d - 1)
           /\ daytime # 0 /\ ~(night < daytime) =>
                Occurs(b, low, night, daytime, d, early) = OfNight(b, low, d)
           /\ daytime = 0 => Occurs(b, low, night, daytime, d, early) =
                                OfNight(b, low, IF early THEN d - 1 ELSE d)
  BY DEF Occurs

\* The low that build_today_slot takes from a bulletin is one its source said of that date,
\* or one of the misread lows.
LEMMA TodayOwn ==
    ASSUME NEW u \in Nat, NEW v \in Nat, v <= u, NEW b, Issued(b, v),
           NEW d, d = Day(u), NEW night, night = NightIndex(b, d), night # 0,
           NEW e \in Occurs(b, b.periods[night].t, night, DaytimeIndex(b, d, d), d, u % 4 < 2),
           e \in {d, d + 1}
    PROVE  <<b.src, e, b.periods[night].t>> \in Learnt(b) \union Misdated(b, d)
  <1> DEFINE dv == Day(v)
             p == b.periods[night]
             daytime == DaytimeIndex(b, d, d)
             early == u % 4 < 2
             ps == b.periods
  <1>1. /\ dv \in Nat /\ d \in Nat /\ dv <= d
        /\ u % 4 \in 0 .. 3 /\ u = 4 * d + (u % 4) /\ v % 4 \in 0 .. 3 /\ v = 4 * dv + (v % 4)
    <2>1. d \in Nat /\ u % 4 \in 0 .. 3 /\ u = 4 * d + (u % 4)
      BY QuarterFacts
    <2>2. dv \in Nat /\ v % 4 \in 0 .. 3 /\ v = 4 * dv + (v % 4)
      BY QuarterFacts
    <2>3. dv <= d
      BY DayMonotone
    <2> QED
      BY <2>1, <2>2, <2>3
  <1>2. /\ night \in DOMAIN b.periods /\ MatchesTonight(p, d) /\ p.isLow /\ p.t # None
        /\ p \in Range(b.periods)
    <2>1. night \in DOMAIN b.periods /\ MatchesTonight(p, d)
      BY FoundTypes
    <2> QED
      BY <2>1 DEF MatchesTonight, Range
  <1>3. e \in OfNight(b, p.t, d - 1) \/ e \in OfNight(b, p.t, d)
    <2>1. e \in Occurs(b, p.t, night, daytime, d, early)
      OBVIOUS
    <2> HIDE DEF p, daytime, early
    <2> QED
      BY <2>1 DEF Occurs
  <1>4. dv <= e /\ e <= dv + 1 /\ (e \in OfNight(b, p.t, d - 1) => e # d + 1)
    <2> HIDE DEF p, dv
    <2>1. d - 1 \in Int /\ d \in Int
      BY <1>1
    <2>2. \A n \in Int : e \in OfNight(b, p.t, n) => dv <= e /\ e <= dv + 1 /\ e \in {n, n + 1}
      BY HourFacts DEF dv
    <2> QED
      BY <1>1, <1>3, <2>1, <2>2
  <1>5. /\ e = d /\ (b.on + 1 = d \/ Numberless(b, d)) => <<b.src, e, p.t>> \in Misdated(b, d)
        /\ e = d + 1 /\ p.of < d /\ Numberless(b, d) => <<b.src, e, p.t>> \in Misdated(b, d)
    <2> HIDE DEF p
    <2> QED
      BY <1>2 DEF Misdated
  <1>6. ASSUME NEW n, n = p.of, e \in OfNight(b, p.t, n)
        PROVE  <<b.src, e, p.t>> \in Learnt(b)
    BY <1>2, <1>6, OwnNight
  <1>7. CASE d # dv
    <2>1. b.on = dv
      BY DEF Issued
    <2> HIDE DEF dv, p
    <2>a. dv \in Nat /\ d \in Nat /\ dv <= d /\ e \in {d, d + 1}
      BY <1>1
    <2>b. dv <= e /\ e <= dv + 1
      BY <1>4
    <2>2. e = d /\ b.on + 1 = d
      BY <1>7, <2>1, <2>a, <2>b
    <2> QED
      BY <1>5, <2>2 DEF p
  <1>8. CASE d = dv
    <2>0. e \in Occurs(b, p.t, night, daytime, d, early) /\ b.on = d
      BY <1>8 DEF Issued
    <2>1. CASE v % 4 # 3 /\ IsDayPage(ps, d)
      <3>1. /\ DOMAIN ps = {1, 2, 3, 4} /\ Len(ps) = 4
            /\ IsDaytime(ps[1], "Today", d) /\ IsNight(ps[2], "Tonight", d)
            /\ IsDaytime(ps[3], "day", d + 1) /\ IsNight(ps[4], "night", d + 1)
        BY <2>1 DEF IsDayPage
      <3>2. night = 2 /\ p.of = d
        BY <1>1, <1>2, <3>1 DEF MatchesTonight, IsDaytime, IsNight
      <3>3. CASE ps[1].t # None
        <4>1. MatchesDaytime(ps[1], d, d)
          BY <3>1, <3>3 DEF MatchesDaytime, IsDaytime
        <4>2. daytime = 1
          BY <3>1, <4>1, DaytimeFirst
        <4> HIDE DEF daytime, p
        <4>3. e \in OfNight(b, p.t, d)
          BY <2>0, <3>2, <4>2, OccursIs
        <4> QED
          BY <1>6, <3>2, <4>3 DEF p
      <3>4. CASE ps[1].t = None
        <4>1. Numberless(b, d)
          BY <2>0, <3>1, <3>4 DEF Numberless, IsDaytime, Range
        <4> QED
          BY <1>3, <1>5, <1>6, <3>2, <4>1, <1>4
      <3> QED
        BY <3>3, <3>4
    <2>2. CASE v % 4 = 0 /\ IsEarlyPage(ps, d)
      <3>1. /\ DOMAIN ps = {1, 2, 3, 4, 5} /\ Len(ps) = 5
            /\ IsNight(ps[1], "Tonight", d - 1)
            /\ IsDaytime(ps[2], "day", d) /\ IsNight(ps[3], "night", d)
            /\ IsDaytime(ps[4], "day", d + 1) /\ IsNight(ps[5], "night", d + 1)
        BY <2>2 DEF IsEarlyPage
      <3>2. (night = 1 /\ p.of = d - 1) \/ (night = 3 /\ p.of = d)
        BY <1>1, <1>2, <3>1 DEF MatchesTonight, IsDaytime, IsNight
      <3>3. CASE ps[2].t # None
        <4>1. MatchesDaytime(ps[2], d, d) /\ ~MatchesDaytime(ps[1], d, d)
          BY <3>1, <3>3 DEF MatchesDaytime, IsDaytime, IsNight
        <4>2. daytime = 2
          BY <3>1, <4>1, DaytimeFirst
        <4> HIDE DEF daytime, p
        <4>3. e \in OfNight(b, p.t, p.of)
          BY <2>0, <3>2, <4>2, OccursIs
        <4> QED
          BY <1>6, <4>3 DEF p
      <3>4. CASE ps[2].t = None
        <4>1. Numberless(b, d)
          BY <2>0, <3>1, <3>4 DEF Numberless, IsDaytime, Range
        <4>2. p.of = d \/ (p.of < d /\ p.of = d - 1)
          <5>1. d - 1 < d
            BY <1>1
          <5> QED
            BY <3>2, <5>1
        <4> QED
          BY <1>3, <1>4, <1>5, <1>6, <4>1, <4>2
      <3> QED
        BY <3>3, <3>4
    <2>3. CASE v % 4 = 3 /\ IsEveningPage(ps, d)
      <3>1. /\ DOMAIN ps = {1, 2, 3} /\ Len(ps) = 3
            /\ IsNight(ps[1], "Tonight", d)
            /\ IsDaytime(ps[2], "day", d + 1) /\ IsNight(ps[3], "night", d + 1)
        BY <2>3 DEF IsEveningPage
      <3>2. night = 1 /\ p.of = d
        BY <1>1, <1>2, <3>1 DEF MatchesTonight, IsDaytime, IsNight
      <3>3. daytime = 0
        <4>1. d + 1 # d /\ 1 .. 3 = {1, 2, 3}
          BY <1>1
        <4>2. \A j \in 1 .. 3 : ~MatchesDaytime(ps[j], d, d)
          BY <3>1, <4>1 DEF MatchesDaytime, IsDaytime, IsNight
        <4> QED
          BY <3>1, <4>2, DaytimeFirst
      <3>4. ~early
        BY <1>1, <1>8, <2>3
      <3> HIDE DEF daytime, p, early
      <3>5. e \in OfNight(b, p.t, d)
        BY <2>0, <3>3, <3>4, OccursIs
      <3> QED
        BY <1>6, <3>2, <3>5 DEF p
    <2> QED
      BY <1>8, <2>1, <2>2, <2>3 DEF Issued
  <1> QED
    BY <1>7, <1>8

\* The lows that build_tomorrow_slot takes are ones the source said of tomorrow, or misread.
LEMMA TomorrowOwn ==
    ASSUME NEW u \in Nat, NEW v \in Nat, v <= u, NEW b, Issued(b, v),
           NEW d, d = Day(u), ~Available(b, d),
           NEW i \in DOMAIN b.periods, b.periods[i].isLow, b.periods[i].t # None,
           DaytimeIndex(b, d + 1, d) # 0,
           \/ i < DaytimeIndex(b, d + 1, d) /\ MatchesTonight(b.periods[i], d)
           \/ i > DaytimeIndex(b, d + 1, d) /\ b.periods[i].name = "night" /\ b.periods[i].of = d + 1,
           d + 1 \in Occurs(b, b.periods[i].t, i, DaytimeIndex(b, d + 1, d), d + 1, TRUE)
    PROVE  <<b.src, d + 1, b.periods[i].t>> \in Learnt(b) \union Misdated(b, d)
  <1> DEFINE dv == Day(v)
             ps == b.periods
             p == b.periods[i]
             next == d + 1
             daytime == DaytimeIndex(b, next, d)
  <1>1. dv \in Nat /\ d \in Nat /\ dv <= d /\ next \in Nat /\ next = d + 1 /\ next - 1 = d /\ next # d
    <2>1. dv \in Nat /\ d \in Nat
      BY QuarterFacts
    <2> QED
      BY <2>1, DayMonotone
  <1>2. next \in Occurs(b, p.t, i, daytime, next, TRUE) /\ daytime # 0
    OBVIOUS
  <1>3. Len(ps) \in Nat /\ DOMAIN ps = 1 .. Len(ps)
    BY PeriodTypes
  <1>4. daytime \in DOMAIN ps /\ MatchesDaytime(ps[daytime], next, d)
    <2> HIDE DEF next
    <2> QED
      BY <1>2, <1>3, DaytimeFirst
  <1>5. next \in OfNight(b, p.t, IF i < daytime THEN d ELSE next)
    <2> HIDE DEF next, daytime, p
    <2>1. CASE i < daytime
      <3>1. next \in OfNight(b, p.t, next - 1)
        BY <1>2, <2>1 DEF Occurs
      <3> QED
        BY <1>1, <2>1, <3>1
    <2>2. CASE ~(i < daytime)
      BY <1>2, <2>2 DEF Occurs
    <2> QED
      BY <2>1, <2>2
  <1>6. d = dv
    <2> HIDE DEF next, p, dv
    <2>1. \A n \in Int : next \in OfNight(b, p.t, n) => next <= dv + 1
      BY HourFacts DEF dv
    <2> QED
      BY <1>1, <1>5, <2>1
  <1>7. /\ i < daytime => MatchesTonight(p, d)
        /\ ~(i < daytime) => p.name = "night" /\ p.of = next
    <2>1. \/ i < daytime /\ MatchesTonight(p, d)
          \/ i > daytime /\ p.name = "night" /\ p.of = next
      OBVIOUS
    <2>2. i \in Int /\ daytime \in Int
      BY <1>3, <1>4
    <2> QED
      BY <2>1, <2>2
  <1>8. ASSUME next \in OfNight(b, p.t, p.of)
        PROVE  <<b.src, next, p.t>> \in Learnt(b)
    BY <1>8, OwnNight
  <1>9. ASSUME MatchesTonight(p, d), p.of < d, Numberless(b, d)
        PROVE  <<b.src, next, p.t>> \in Misdated(b, d)
    <2>1. p \in Range(b.periods)
      BY DEF Range
    <2> HIDE DEF p
    <2> QED
      BY <1>9, <2>1 DEF Misdated
  <1>10. CASE ~(i < daytime)
    BY <1>5, <1>7, <1>8, <1>10
  <1>11. CASE i < daytime
    <2>0. next \in OfNight(b, p.t, d) /\ MatchesTonight(p, d)
      BY <1>5, <1>7, <1>11
    <2>1. CASE p.of = d
      BY <1>8, <2>0, <2>1
    <2>2. CASE p.of # d
      <3>1. p.name = "Tonight"
        BY <2>0, <2>2 DEF MatchesTonight
      <3>2. ~IsDayPage(ps, d) /\ ~IsEveningPage(ps, d)
        <4>1. ASSUME IsDayPage(ps, d)
              PROVE  FALSE
          <5>1. DOMAIN ps = {1, 2, 3, 4}
            BY <4>1 DEF IsDayPage
          <5> QED
            BY <2>2, <3>1, <4>1, <5>1 DEF IsDayPage, IsDaytime, IsNight
        <4>2. ASSUME IsEveningPage(ps, d)
              PROVE  FALSE
          <5>1. DOMAIN ps = {1, 2, 3}
            BY <4>2 DEF IsEveningPage
          <5> QED
            BY <2>2, <3>1, <4>2, <5>1 DEF IsEveningPage, IsDaytime, IsNight
        <4> QED
          BY <4>1, <4>2
      <3>3. IsEarlyPage(ps, d)
        BY <1>6, <3>2 DEF Issued
      <3>4. /\ DOMAIN ps = {1, 2, 3, 4, 5} /\ Len(ps) = 5
            /\ IsNight(ps[1], "Tonight", d - 1)
            /\ IsDaytime(ps[2], "day", d) /\ IsNight(ps[3], "night", d)
            /\ IsDaytime(ps[4], "day", d + 1) /\ IsNight(ps[5], "night", d + 1)
        BY <3>3 DEF IsEarlyPage
      <3>5. p.of < d
        BY <1>1, <3>1, <3>4 DEF IsDaytime, IsNight
      <3>6. ps[2].t = None
        <4> SUFFICES ASSUME ps[2].t # None
                     PROVE  FALSE
          OBVIOUS
        <4>1. MatchesDaytime(ps[2], d, d)
          BY <3>4 DEF MatchesDaytime, IsDaytime
        <4>2. DaytimeIndex(b, d, d) # 0
          BY <3>4, <4>1, DaytimeFirst
        <4> QED
          BY <4>2 DEF Available
      <3>7. Numberless(b, d)
        <4>1. b.on = d /\ ps[2] \in Range(b.periods)
          BY <1>6, <3>4 DEF Issued, Range
        <4> QED
          BY <3>4, <3>6, <4>1 DEF Numberless, IsDaytime
      <3> QED
        BY <1>9, <2>0, <3>5, <3>7
    <2> QED
      BY <2>1, <2>2
  <1> QED
    BY <1>10, <1>11
-----------------------------------------------------------------------------
(* TodayForecast: temperatures of bulletins, and what a selection keeps.     *)

LEMMA ColderFacts ==
    ASSUME NEW s \in Temperatures, NEW t \in Temperatures
    PROVE  /\ Colder(s, t) \in {s, t} /\ Colder(s, t) \in Temperatures
           /\ Colder(s, t) <= s /\ Colder(s, t) <= t
  <1>1. s \in Int /\ t \in Int
    BY TemperatureTypes
  <1> QED
    BY <1>1 DEF Colder

\* The extremes of the modelled dates.
Days == [Dates -> [low : Temperatures, high : Temperatures]]

\* What a file of extremes c may say on the date d: lows in S, and highs of that date only.
LowsIn(c, d, S) ==
    \A e \in Dates : e >= d /\ c.days[e].low # None => <<c.src, e, c.days[e].low>> \in S
HighsIn(c, d, H) ==
    \A e \in Dates : e >= d /\ c.days[e].high # None =>
        e = d /\ H[e].kept \in {[src |-> c.src, t |-> c.days[e].high], Misread}

\* The high that bulletin b has for a date is the one read, and, if the file could be
\* written, the one kept.
Reads(b, d, H) ==
    \A e \in Dates : DaytimeIndex(b, e, d) # 0 =>
        H[e].read \in {[src |-> b.src, t |-> b.periods[DaytimeIndex(b, e, d)].t], Misread}
KeepsRead(b, d, H) ==
    \A e \in Dates : DaytimeIndex(b, e, d) # 0 => H[e].kept = H[e].read

\* What a file may say, where a high that b has for d itself is about to be replaced.
HighsLeft(c, b, d, H) ==
    \A e \in Dates : e >= d /\ c.days[e].high # None =>
        /\ e = d
        /\ DaytimeIndex(b, d, d) = 0 => H[e].kept \in {[src |-> c.src, t |-> c.days[e].high], Misread}
\* The same of the high that a selection from b has found.
HighsFound(c, b, d, H) ==
    /\ HighsLeft(c, b, d, H)
    /\ c.days[d].high # None /\ DaytimeIndex(b, d, d) # 0 =>
          H[d].read \in {[src |-> c.src, t |-> c.days[d].high], Misread}

FileOk(c, b, d, S, H) ==
    /\ c.src \in Sources \union {"none"} /\ c.days \in Days
    /\ LowsIn(c, d, S) /\ HighsLeft(c, b, d, H)

LEMMA NoFileOk == ASSUME NEW b, NEW d, NEW S, NEW H PROVE FileOk(NoFile, b, d, S, H)
  <1>1. NoFile.src = "none" /\ \A e \in Dates : NoFile.days[e] = [low |-> None, high |-> None]
    BY DEF NoFile, Unknown
  <1>2. NoFile.days \in Days
    BY TemperatureTypes DEF NoFile, Unknown, Days
  <1>3. \A e \in Dates : NoFile.days[e].low = None /\ NoFile.days[e].high = None
    BY <1>1
  <1> QED
    BY <1>1, <1>2, <1>3 DEF FileOk, LowsIn, HighsLeft

TonightLow(b, d) == IF NightIndex(b, d) = 0 THEN None ELSE b.periods[NightIndex(b, d)].t
TonightDates(b, d, u) ==
    IF NightIndex(b, d) = 0 THEN {}
    ELSE Occurs(b, TonightLow(b, d), NightIndex(b, d), DaytimeIndex(b, d, d), d, u % 4 < 2)

\* What is loaded from the file is of its source and of the two dates, or unknown.
LEMMA LoadFacts ==
    ASSUME NEW c, NEW src, NEW d, NEW e \in Dates, c.days \in Days
    PROVE  /\ Load(c, src, d)[e] \in [low : Temperatures, high : Temperatures]
           /\ Load(c, src, d)[e] = IF c.src = src /\ e \in {d, d + 1} THEN c.days[e] ELSE Unknown
  <1>1. Load(c, src, d)[e] = IF c.src = src /\ e \in {d, d + 1} THEN c.days[e] ELSE Unknown
    BY DEF Load
  <1>2. Unknown \in [low : Temperatures, high : Temperatures]
    BY TemperatureTypes DEF Unknown
  <1> QED
    BY <1>1, <1>2 DEF Days

\* What build_today_slot makes on the date d of the extremes days it has loaded.
IsTodaySlot(T, b, o, days, u, d) ==
    /\ T.cache.src = b.src
    /\ T.slot.label = "TODAY" /\ T.slot.src = b.src /\ T.slot.date = d
    /\ T.slot.low = T.cache.days[d].low /\ T.slot.high = T.cache.days[d].high
    /\ T.cache.days[d].low = Colder(Colder(days[d].low, ObservedOn(o, d)),
                                    IF d \in TonightDates(b, d, u) THEN TonightLow(b, d) ELSE None)
    /\ T.cache.days[d].high = HighOf(b, DaytimeIndex(b, d, d), days[d].high)
    /\ \A e \in Dates \ {d} :
         /\ T.cache.days[e].low = IF e = d + 1 /\ e \in TonightDates(b, d, u)
                                  THEN Colder(days[e].low, TonightLow(b, d)) ELSE days[e].low
         /\ T.cache.days[e].high = days[e].high
    /\ T.cache.days = [e \in Dates |-> [low |-> T.cache.days[e].low, high |-> T.cache.days[e].high]]

\* The parts of TodaySlot by name.
LEMMA TodaySlotIs ==
    ASSUME NEW b, NEW o, NEW c, c.days \in Days, NEW u \in Begin .. End, NEW d, d = Day(u)
    PROVE  IsTodaySlot(TodaySlot(b, o, c, u), b, o, Load(c, b.src, d), u, d)
  <1> DEFINE T == TodaySlot(b, o, c, u)
             days == Load(c, b.src, d)
             low == TonightLow(b, d)
             dates == TonightDates(b, d, u)
             today == [low |-> Colder(Colder(days[d].low, ObservedOn(o, d)),
                                      IF d \in dates THEN low ELSE None),
                       high |-> HighOf(b, DaytimeIndex(b, d, d), days[d].high)]
             fresh == [e \in Dates |-> IF e = d THEN today
                         ELSE IF e = d + 1 /\ e \in dates
                              THEN [days[e] EXCEPT !.low = Colder(@, low)] ELSE days[e]]
  <1>1. T = [slot |-> [label |-> "TODAY", src |-> b.src, date |-> d,
                       low |-> today.low, high |-> today.high],
             cache |-> [src |-> b.src, days |-> fresh]]
    BY DEF TodaySlot, TonightLow, TonightDates
  <1>2. d \in Dates /\ \A e \in Dates : days[e] \in [low : Temperatures, high : Temperatures]
    BY LoadFacts, DatesFacts
  <1>3. /\ today.low = Colder(Colder(days[d].low, ObservedOn(o, d)),
                              IF d \in dates THEN low ELSE None)
        /\ today.high = HighOf(b, DaytimeIndex(b, d, d), days[d].high)
        /\ today = [low |-> today.low, high |-> today.high]
    OBVIOUS
  <1> HIDE DEF T, today, days, low, dates
  <1>4. fresh[d] = today
    BY <1>2
  <1>5. ASSUME NEW e \in Dates \ {d}
        PROVE  /\ fresh[e].low = IF e = d + 1 /\ e \in dates
                                 THEN Colder(days[e].low, low) ELSE days[e].low
               /\ fresh[e].high = days[e].high
               /\ fresh[e] = [low |-> fresh[e].low, high |-> fresh[e].high]
    <2>1. days[e] = [low |-> days[e].low, high |-> days[e].high]
      BY <1>2
    <2>2. CASE e = d + 1 /\ e \in dates
      <3>1. fresh[e] = [low |-> Colder(days[e].low, low), high |-> days[e].high]
        BY <2>1, <2>2
      <3> QED
        BY <2>2, <3>1
    <2>3. CASE ~(e = d + 1 /\ e \in dates)
      BY <2>1, <2>3
    <2> QED
      BY <2>2, <2>3
  <1>6. fresh = [e \in Dates |-> [low |-> fresh[e].low, high |-> fresh[e].high]]
    <2>1. \A e \in Dates : fresh[e] = [low |-> fresh[e].low, high |-> fresh[e].high]
      BY <1>3, <1>4, <1>5
    <2>2. fresh = [e \in Dates |-> fresh[e]]
      OBVIOUS
    <2> HIDE DEF fresh
    <2> QED
      BY <2>1, <2>2
  <1> HIDE DEF fresh
  <1>7. /\ T.cache.src = b.src /\ T.cache.days = fresh
        /\ T.slot.label = "TODAY" /\ T.slot.src = b.src /\ T.slot.date = d
        /\ T.slot.low = today.low /\ T.slot.high = today.high
    BY <1>1
  <1> QED
    BY <1>3, <1>4, <1>5, <1>6, <1>7 DEF IsTodaySlot, T, days, low, dates

Observations == {NoObservation} \union [date : Dates, t : Lows]

\* The low of the night found is of a date it was said for.
LEMMA TonightFacts ==
    ASSUME NEW u \in Begin .. End, NEW v \in Begin .. u, NEW b, Issued(b, v),
           NEW d, d = Day(u)
    PROVE  /\ TonightLow(b, d) \in Temperatures
           /\ \A e \in TonightDates(b, d, u) \intersect {d, d + 1} :
                 <<b.src, e, TonightLow(b, d)>> \in Learnt(b) \union Misdated(b, d)
  <1>1. u \in Nat /\ v \in Nat /\ v <= u /\ v \in Begin .. End
    BY TodayAssumption
  <1>2. TonightLow(b, d) \in Temperatures
    BY <1>1, FoundTypes, TemperatureTypes DEF TonightLow
  <1>3. ASSUME NEW e \in TonightDates(b, d, u), e \in {d, d + 1}
        PROVE  <<b.src, e, TonightLow(b, d)>> \in Learnt(b) \union Misdated(b, d)
    <2> DEFINE night == NightIndex(b, d)
    <2>1. night # 0
      BY <1>3 DEF TonightDates
    <2>2. TonightLow(b, d) = b.periods[night].t
      BY <2>1 DEF TonightLow
    <2>3. e \in Occurs(b, b.periods[night].t, night, DaytimeIndex(b, d, d), d, u % 4 < 2)
      BY <1>3, <2>1, <2>2 DEF TonightDates
    <2> QED
      BY <1>1, <1>3, <2>1, <2>2, <2>3, TodayOwn
  <1> QED
    BY <1>2, <1>3

\* build_today_slot writes temperatures.
LEMMA TodayKeepsTypes ==
    ASSUME NEW u \in Begin .. End, NEW v \in Begin .. u, NEW b, Issued(b, v),
           NEW d, d = Day(u), NEW o \in Observations, NEW c, c.days \in Days
    PROVE  TodaySlot(b, o, c, u).cache.days \in Days
  <1> DEFINE T == TodaySlot(b, o, c, u)
             days == Load(c, b.src, d)
             low == TonightLow(b, d)
             dates == TonightDates(b, d, u)
             daytime == DaytimeIndex(b, d, d)
  <1>0. IsTodaySlot(T, b, o, days, u, d)
    BY TodaySlotIs
  <1>1. d \in Dates /\ v \in Begin .. End
    BY DatesFacts, TodayAssumption
  <1>2. low \in Temperatures
    BY TonightFacts
  <1>3. \A e \in Dates : days[e].low \in Temperatures /\ days[e].high \in Temperatures
    BY LoadFacts
  <1>4. ObservedOn(o, d) \in Temperatures
    BY TemperatureTypes DEF Observations, NoObservation, ObservedOn
  <1>5. T.cache.days[d].high \in Temperatures
    <2>1. HighOf(b, daytime, days[d].high) \in Temperatures
      BY <1>1, <1>3, FoundTypes DEF HighOf
    <2> QED
      BY <1>0, <2>1 DEF IsTodaySlot
  <1>6. T.cache.days[d].low \in Temperatures
    <2>1. Colder(days[d].low, ObservedOn(o, d)) \in Temperatures
      BY <1>1, <1>3, <1>4, ColderFacts
    <2>2. (IF d \in dates THEN low ELSE None) \in Temperatures
      BY <1>2, TemperatureTypes
    <2>3. T.cache.days[d].low = Colder(Colder(days[d].low, ObservedOn(o, d)),
                                       IF d \in dates THEN low ELSE None)
      BY <1>0 DEF IsTodaySlot
    <2> HIDE DEF T, days, low, dates
    <2> QED
      BY <2>1, <2>2, <2>3, ColderFacts
  <1>7. \A e \in Dates \ {d} : Colder(days[e].low, low) \in Temperatures
    BY <1>2, <1>3, ColderFacts
  <1>8. /\ \A e \in Dates \ {d} :
             /\ T.cache.days[e].low = IF e = d + 1 /\ e \in dates
                                      THEN Colder(days[e].low, low) ELSE days[e].low
             /\ T.cache.days[e].high = days[e].high
        /\ T.cache.days = [e \in Dates |-> [low |-> T.cache.days[e].low,
                                            high |-> T.cache.days[e].high]]
    BY <1>0 DEF IsTodaySlot
  <1> HIDE DEF T, days, low, dates, daytime
  <1>9. \A e \in Dates : T.cache.days[e].low \in Temperatures /\ T.cache.days[e].high \in Temperatures
    BY <1>3, <1>5, <1>6, <1>7, <1>8
  <1> QED
    BY <1>8, <1>9 DEF Days, T

\* The lows that build_today_slot writes were said of their dates, or are in the file.
LEMMA TodayKeepsLows ==
    ASSUME NEW u \in Begin .. End, NEW v \in Begin .. u, NEW b, Issued(b, v),
           NEW d, d = Day(u), NEW o \in Observations, NEW c, c.days \in Days,
           NEW S, LowsIn(c, d, S), Learnt(b) \union Misdated(b, d) \subseteq S,
           o # NoObservation => <<b.src, o.date, o.t>> \in S
    PROVE  LowsIn(TodaySlot(b, o, c, u).cache, d, S)
  <1> DEFINE T == TodaySlot(b, o, c, u)
             days == Load(c, b.src, d)
             low == TonightLow(b, d)
             dates == TonightDates(b, d, u)
  <1>0. IsTodaySlot(T, b, o, days, u, d)
    BY TodaySlotIs
  <1>1. d \in Dates
    BY DatesFacts
  <1>2. low \in Temperatures /\ \A e \in dates \intersect {d, d + 1} : <<b.src, e, low>> \in S
    BY TonightFacts
  <1>3. \A e \in Dates : days[e].low \in Temperatures
    BY LoadFacts
  <1>4. \A e \in Dates : e >= d /\ days[e].low # None => <<b.src, e, days[e].low>> \in S
    <2> SUFFICES ASSUME NEW e \in Dates, e >= d, days[e].low # None
                 PROVE  <<b.src, e, days[e].low>> \in S
      OBVIOUS
    <2>1. days[e] = IF c.src = b.src /\ e \in {d, d + 1} THEN c.days[e] ELSE Unknown
      BY LoadFacts
    <2>2. Unknown.low = None
      BY DEF Unknown
    <2> HIDE DEF days
    <2>3. c.src = b.src /\ days[e] = c.days[e]
      BY <2>1, <2>2
    <2> QED
      BY <2>3 DEF LowsIn
  <1>5. /\ ObservedOn(o, d) \in Temperatures
        /\ ObservedOn(o, d) # None => <<b.src, d, ObservedOn(o, d)>> \in S
    <2>1. NoObservation.t = None
      BY DEF NoObservation
    <2> QED
      BY <2>1, TemperatureTypes DEF Observations, ObservedOn
  <1>6. T.cache.src = b.src
    BY <1>0 DEF IsTodaySlot
  <1>7. T.cache.days[d].low = Colder(Colder(days[d].low, ObservedOn(o, d)),
                                     IF d \in dates THEN low ELSE None)
    BY <1>0 DEF IsTodaySlot
  <1>8. \A e \in Dates \ {d} : T.cache.days[e].low = IF e = d + 1 /\ e \in dates
                                                     THEN Colder(days[e].low, low) ELSE days[e].low
    BY <1>0 DEF IsTodaySlot
  <1> HIDE DEF T, days, low, dates
  <1>9. T.cache.days[d].low # None => <<b.src, d, T.cache.days[d].low>> \in S
    <2> DEFINE x == Colder(days[d].low, ObservedOn(o, d))
               y == IF d \in dates THEN low ELSE None
    <2>1. T.cache.days[d].low = Colder(x, y)
      BY <1>7
    <2>2. x \in Temperatures /\ x \in {days[d].low, ObservedOn(o, d)}
      BY <1>1, <1>3, <1>5, ColderFacts
    <2>3. y \in Temperatures /\ y \in {low, None} /\ (y # None => d \in dates /\ y = low)
      BY <1>2, TemperatureTypes
    <2> HIDE DEF x, y
    <2>4. Colder(x, y) \in {x, y}
      BY <2>2, <2>3, ColderFacts
    <2>5. d >= d
      BY DatesFacts
    <2> QED
      BY <1>1, <1>2, <1>4, <1>5, <2>1, <2>2, <2>3, <2>4, <2>5
  <1>10. ASSUME NEW e \in Dates \ {d}, e >= d, T.cache.days[e].low # None
         PROVE  <<b.src, e, T.cache.days[e].low>> \in S
    <2>1. CASE e = d + 1 /\ e \in dates
      <3>1. T.cache.days[e].low = Colder(days[e].low, low)
        BY <1>8, <2>1
      <3>2. Colder(days[e].low, low) \in {days[e].low, low}
        BY <1>2, <1>3, ColderFacts
      <3> QED
        BY <1>2, <1>4, <1>10, <2>1, <3>1, <3>2
    <2>2. CASE ~(e = d + 1 /\ e \in dates)
      BY <1>4, <1>8, <1>10, <2>2
    <2> QED
      BY <2>1, <2>2
  <1> QED
    BY <1>6, <1>9, <1>10 DEF LowsIn, T

\* The highs of build_today_slot are the bulletin's, or the ones of the file.
LEMMA TodayKeepsHighs ==
    ASSUME NEW u \in Begin .. End, NEW d, d = Day(u), NEW b, NEW o, NEW c, c.days \in Days,
           NEW H, HighsLeft(c, b, d, H), Reads(b, d, H)
    PROVE  HighsFound(TodaySlot(b, o, c, u).cache, b, d, H)
  <1> DEFINE T == TodaySlot(b, o, c, u)
             days == Load(c, b.src, d)
             daytime == DaytimeIndex(b, d, d)
  <1>0. IsTodaySlot(T, b, o, days, u, d)
    BY TodaySlotIs
  <1>1. d \in Dates
    BY DatesFacts
  <1>2. T.cache.src = b.src
    BY <1>0 DEF IsTodaySlot
  <1>3. T.cache.days[d].high = HighOf(b, daytime, days[d].high)
    BY <1>0 DEF IsTodaySlot
  <1>4. \A e \in Dates : days[e] = IF c.src = b.src /\ e \in {d, d + 1} THEN c.days[e] ELSE Unknown
    BY LoadFacts
  <1>5. Unknown.high = None /\ d >= d
    BY DatesFacts DEF Unknown
  <1>6. \A e \in Dates \ {d} : T.cache.days[e].high = days[e].high
    BY <1>0 DEF IsTodaySlot
  <1> HIDE DEF T, days
  <1>7. ASSUME T.cache.days[d].high # None, daytime # 0
        PROVE  H[d].read \in {[src |-> b.src, t |-> T.cache.days[d].high], Misread}
    BY <1>1, <1>3, <1>7 DEF Reads, HighOf
  <1>8. ASSUME T.cache.days[d].high # None, daytime = 0
        PROVE  H[d].kept \in {[src |-> b.src, t |-> T.cache.days[d].high], Misread}
    <2>1. T.cache.days[d].high = days[d].high
      BY <1>3, <1>8 DEF HighOf
    <2>2. c.src = b.src /\ days[d] = c.days[d]
      BY <1>1, <1>4, <1>5, <1>8, <2>1
    <2> QED
      BY <1>1, <1>5, <1>8, <2>1, <2>2 DEF HighsLeft
  <1>9. ASSUME NEW e \in Dates \ {d}, e >= d
        PROVE  T.cache.days[e].high = None
    <2>1. c.days[e].high = None
      BY <1>9 DEF HighsLeft
    <2> QED
      BY <1>4, <1>5, <1>6, <2>1
  <1>10. HighsLeft(T.cache, b, d, H)
    BY <1>1, <1>2, <1>8, <1>9 DEF HighsLeft
  <1> QED
    BY <1>2, <1>7, <1>10 DEF HighsFound, T

\* Of the date d and the next one nothing is forgotten, and no low made warmer.
KeepsDays(before, after, d) ==
    \A e \in {d, d + 1} :
        /\ after[e].low <= before[e].low
        /\ before[e].high # None => after[e].high # None

LEMMA TodayKeepsDays ==
    ASSUME NEW u \in Begin .. End, NEW v \in Begin .. u, NEW b, Issued(b, v),
           NEW d, d = Day(u), NEW o \in Observations, NEW c, c.days \in Days, c.src = b.src
    PROVE  KeepsDays(c.days, TodaySlot(b, o, c, u).cache.days, d)
  <1> DEFINE T == TodaySlot(b, o, c, u)
             days == Load(c, b.src, d)
             low == TonightLow(b, d)
             dates == TonightDates(b, d, u)
             daytime == DaytimeIndex(b, d, d)
  <1>0. IsTodaySlot(T, b, o, days, u, d)
    BY TodaySlotIs
  <1>1. d \in Dates /\ d + 1 \in Dates /\ v \in Begin .. End
    BY DatesFacts, TodayAssumption
  <1>2. low \in Temperatures
    BY TonightFacts
  <1>3. days[d] = c.days[d] /\ days[d + 1] = c.days[d + 1]
    BY <1>1, LoadFacts
  <1>4. /\ days[d].low \in Temperatures /\ days[d + 1].low \in Temperatures
    BY <1>1, LoadFacts
  <1>5. ObservedOn(o, d) \in Temperatures
    BY TemperatureTypes DEF Observations, NoObservation, ObservedOn
  <1>6. T.cache.days[d].low <= days[d].low
    <2> DEFINE x == Colder(days[d].low, ObservedOn(o, d))
               y == IF d \in dates THEN low ELSE None
    <2>1. x \in Temperatures /\ x <= days[d].low
      BY <1>4, <1>5, ColderFacts
    <2>2. y \in Temperatures
      BY <1>2, TemperatureTypes
    <2>3. T.cache.days[d].low = Colder(x, y)
      BY <1>0 DEF IsTodaySlot
    <2> HIDE DEF x, y, T, days
    <2>4. Colder(x, y) <= x /\ Colder(x, y) \in Temperatures
      BY <2>1, <2>2, ColderFacts
    <2>5. x \in Int /\ Colder(x, y) \in Int /\ days[d].low \in Int
      BY <1>4, <2>1, <2>4, TemperatureTypes
    <2> QED
      BY <2>1, <2>3, <2>4, <2>5
  <1>7. T.cache.days[d + 1].low <= days[d + 1].low
    <2>1. d \in Int /\ d + 1 # d
      BY DatesFacts
    <2>2. T.cache.days[d + 1].low \in {Colder(days[d + 1].low, low), days[d + 1].low}
      BY <1>0, <1>1, <2>1 DEF IsTodaySlot
    <2>3. Colder(days[d + 1].low, low) <= days[d + 1].low /\ days[d + 1].low \in Int
      BY <1>2, <1>4, ColderFacts, TemperatureTypes
    <2> HIDE DEF T, days, low
    <2> QED
      BY <2>2, <2>3
  <1>8. days[d].high # None => T.cache.days[d].high # None
    <2>1. T.cache.days[d].high = HighOf(b, daytime, days[d].high)
      BY <1>0 DEF IsTodaySlot
    <2>2. daytime # 0 => b.periods[daytime].t # None
      BY <1>1, FoundTypes
    <2> HIDE DEF T, days, daytime
    <2> QED
      BY <2>1, <2>2 DEF HighOf
  <1>9. T.cache.days[d + 1].high = days[d + 1].high
    <2>1. d \in Int /\ d + 1 # d
      BY DatesFacts
    <2> QED
      BY <1>0, <1>1, <2>1 DEF IsTodaySlot
  <1> HIDE DEF T, days
  <1> QED
    BY <1>3, <1>6, <1>7, <1>8, <1>9 DEF KeepsDays, T

\* Two selections in one step keep what each of them keeps.
LEMMA KeepsTwice ==
    ASSUME NEW x \in Days, NEW y \in Days, NEW z \in Days, NEW d, d \in Dates, d + 1 \in Dates,
           KeepsDays(x, y, d), KeepsDays(y, z, d)
    PROVE  KeepsDays(x, z, d)
  <1> SUFFICES ASSUME NEW e \in {d, d + 1}
               PROVE  z[e].low <= x[e].low /\ (x[e].high # None => z[e].high # None)
    BY DEF KeepsDays
  <1>1. x[e].low \in Temperatures /\ y[e].low \in Temperatures /\ z[e].low \in Temperatures
    BY DEF Days
  <1>2. x[e].low \in Int /\ y[e].low \in Int /\ z[e].low \in Int
    BY <1>1, TemperatureTypes
  <1> QED
    BY <1>2 DEF KeepsDays

-----------------------------------------------------------------------------
(* TodayForecast: the slot of tomorrow.                                      *)

TomorrowNights(b, d, next) ==
    {i \in DOMAIN b.periods :
       /\ DaytimeIndex(b, next, d) # 0 /\ b.periods[i].isLow /\ b.periods[i].t # None
       /\ \/ i < DaytimeIndex(b, next, d) /\ MatchesTonight(b.periods[i], d)
          \/ i > DaytimeIndex(b, next, d) /\ b.periods[i].name = "night" /\ b.periods[i].of = next
       /\ next \in Occurs(b, b.periods[i].t, i, DaytimeIndex(b, next, d), next, TRUE)}

IsTomorrowSlot(s, b, known, d) ==
    /\ s.label = "TMORROW" /\ s.src = b.src /\ s.date = d + 1
    /\ s.low = Min({known.low} \union {b.periods[i].t : i \in TomorrowNights(b, d, d + 1)})
    /\ s.high = HighOf(b, DaytimeIndex(b, d + 1, d), known.high)

\* The parts of TomorrowSlot by name.
LEMMA TomorrowSlotIs ==
    ASSUME NEW b, NEW c, NEW u \in Begin .. End, NEW d, d = Day(u)
    PROVE  IsTomorrowSlot(TomorrowSlot(b, c, u), b, Load(c, b.src, d + 1)[d + 1], d)
  <1>1. (d + 1) - 1 = d
    BY DatesFacts
  <1> DEFINE next == Day(u) + 1
             known == Load(c, b.src, next)[next]
             daytime == DaytimeIndex(b, next, next - 1)
             nights == {i \in DOMAIN b.periods :
                     /\ daytime # 0 /\ b.periods[i].isLow /\ b.periods[i].t # None
                     /\ \/ i < daytime /\ MatchesTonight(b.periods[i], next - 1)
                        \/ i > daytime /\ b.periods[i].name = "night" /\ b.periods[i].of = next
                     /\ next \in Occurs(b, b.periods[i].t, i, daytime, next, TRUE)}
  <1>2. TomorrowSlot(b, c, u) =
          [label |-> "TMORROW", src |-> b.src, date |-> next,
           low |-> Min({known.low} \union {b.periods[i].t : i \in nights}),
           high |-> HighOf(b, daytime, known.high)]
    BY DEF TomorrowSlot
  <1>3. next = d + 1 /\ next - 1 = d
    BY <1>1
  <1> HIDE DEF next
  <1>4. nights = TomorrowNights(b, d, d + 1) /\ daytime = DaytimeIndex(b, d + 1, d)
        /\ known = Load(c, b.src, d + 1)[d + 1]
    BY <1>3 DEF TomorrowNights
  <1> HIDE DEF nights, daytime, known
  <1> QED
    BY <1>2, <1>3, <1>4 DEF IsTomorrowSlot
-----------------------------------------------------------------------------
(* TodayForecast: a selection.                                               *)

SlotTypes(s) ==
    /\ s.label \in {"none", "TODAY", "TMORROW"} /\ s.src \in Sources \union {"none"}
    /\ s.date \in Dates \union {0}
    /\ s.low \in Temperatures /\ s.high \in Temperatures

\* What a slot may say while its date has not passed.
SlotIn(s, d, S, H) ==
    s.date >= d =>
        /\ s.low # None => <<s.src, s.date, s.low>> \in S
        /\ s.high # None => {H[s.date].read, H[s.date].kept} \intersect
                                {[src |-> s.src, t |-> s.high], Misread} # {}

\* select_clock_slots keeps the file of today's slot, if it can, and shows that slot or
\* tomorrow's.
FileRead(c, faults) == IF "read" \in faults THEN NoFile ELSE c
LEMMA SelectIs ==
    ASSUME NEW b, NEW o, NEW c, NEW u, NEW faults
    PROVE  LET T == TodaySlot(b, o, FileRead(c, faults), u)
               W == Select(b, o, c, u, faults)
           IN  /\ W.cache = IF "write" \in faults THEN c ELSE T.cache
               /\ \/ W.slot = T.slot
                  \/ ~Available(b, Day(u)) /\ W.slot = TomorrowSlot(b, FileRead(W.cache, faults), u)
  <1> DEFINE T == TodaySlot(b, o, FileRead(c, faults), u)
             W == Select(b, o, c, u, faults)
             kept == IF "write" \in faults THEN c ELSE T.cache
             tomorrow == TomorrowSlot(b, FileRead(kept, faults), u)
  <1>1. W = [slot |-> IF ~Available(b, Day(u)) /\ tomorrow.high # None THEN tomorrow ELSE T.slot,
             cache |-> kept]
    BY DEF Select, FileRead
  <1> HIDE DEF T, W, kept, tomorrow
  <1>2. /\ W.cache = kept
        /\ W.slot = IF ~Available(b, Day(u)) /\ tomorrow.high # None THEN tomorrow ELSE T.slot
    BY <1>1
  <1> QED
    BY <1>2 DEF T, W, kept, tomorrow

\* build_tomorrow_slot shows a low and a high that belong to tomorrow.
LEMMA TomorrowKeeps ==
    ASSUME NEW u \in Begin .. End, NEW v \in Begin .. u, NEW b, Issued(b, v),
           NEW d, d = Day(u), ~Available(b, d), NEW c,
           NEW S, Learnt(b) \union Misdated(b, d) \subseteq S, NEW H, FileOk(c, b, d, S, H),
           Reads(b, d, H)
    PROVE  SlotTypes(TomorrowSlot(b, c, u)) /\ SlotIn(TomorrowSlot(b, c, u), d, S, H)
  <1> DEFINE s == TomorrowSlot(b, c, u)
             known == Load(c, b.src, d + 1)[d + 1]
             daytime == DaytimeIndex(b, d + 1, d)
             lows == {known.low} \union {b.periods[i].t : i \in TomorrowNights(b, d, d + 1)}
  <1>0. IsTomorrowSlot(s, b, known, d)
    BY TomorrowSlotIs
  <1>1. d + 1 \in Dates /\ u \in Nat /\ v \in Nat /\ v <= u /\ b.src \in Sources /\ c.days \in Days
    BY DatesFacts, TodayAssumption DEF Issued, FileOk
  <1>2. /\ known.low \in Temperatures /\ known.high \in Temperatures
        /\ known = IF c.src = b.src THEN c.days[d + 1] ELSE Unknown
    BY <1>1, LoadFacts
  <1>3. d + 1 >= d /\ d + 1 # d
    BY DatesFacts
  <1>4. s.label = "TMORROW" /\ s.src = b.src /\ s.date = d + 1 /\ s.low = Min(lows)
        /\ s.high = HighOf(b, daytime, known.high)
    BY <1>0 DEF IsTomorrowSlot
  <1>5. \A i \in TomorrowNights(b, d, d + 1) :
          b.periods[i].t \in Temperatures /\ <<b.src, d + 1, b.periods[i].t>> \in S
    <2> SUFFICES ASSUME NEW i \in TomorrowNights(b, d, d + 1)
                 PROVE  b.periods[i].t \in Temperatures /\ <<b.src, d + 1, b.periods[i].t>> \in S
      OBVIOUS
    <2>1. i \in DOMAIN b.periods
      BY DEF TomorrowNights
    <2>2. b.periods[i].t \in Temperatures
      BY <2>1, PeriodTypes
    <2>3. <<b.src, d + 1, b.periods[i].t>> \in Learnt(b) \union Misdated(b, d)
      BY <1>1, <2>1, TomorrowOwn DEF TomorrowNights
    <2> QED
      BY <2>2, <2>3
  <1>a. known.low # None => c.src = b.src /\ known.low = c.days[d + 1].low
    BY <1>2 DEF Unknown
  <1>b. known.high # None => known.high = c.days[d + 1].high
    BY <1>2 DEF Unknown
  <1> HIDE DEF s, known, daytime
  <1>6. s.low \in lows /\ s.low \in Temperatures
    <2>1. lows \in SUBSET Degrees /\ lows # {}
      BY <1>2, <1>5, TemperatureTypes
    <2>2. \A t \in lows : t \in Temperatures
      BY <1>2, <1>5
    <2> HIDE DEF lows
    <2>3. Min(lows) \in lows
      BY <2>1, ColdestFacts
    <2> QED
      BY <1>4, <2>2, <2>3
  <1>7. s.low # None => <<b.src, d + 1, s.low>> \in S
    <2>1. known.low # None => <<b.src, d + 1, known.low>> \in S
      BY <1>1, <1>3, <1>a DEF FileOk, LowsIn
    <2> QED
      BY <1>5, <1>6, <2>1
  <1>8. known.high = None
    BY <1>1, <1>3, <1>b DEF FileOk, HighsLeft
  <1>9. s.high \in Temperatures
    BY <1>1, <1>2, <1>4, FoundTypes DEF HighOf, daytime
  <1>10. s.high # None => H[d + 1].read \in {[src |-> b.src, t |-> s.high], Misread}
    BY <1>1, <1>4, <1>8 DEF Reads, HighOf, daytime
  <1> QED
    BY <1>1, <1>4, <1>6, <1>7, <1>9, <1>10 DEF SlotTypes, SlotIn, s

\* A file that stands keeps all of its days.
LEMMA KeepsSame ==
    ASSUME NEW x \in Days, NEW d, d \in Dates, d + 1 \in Dates
    PROVE  KeepsDays(x, x, d)
  <1>1. \A e \in {d, d + 1} : x[e].low \in Int
    BY TemperatureTypes DEF Days
  <1> QED
    BY <1>1 DEF KeepsDays

\* What a selection from b and the file c leaves.
Outcome(W, b, c, faults, d, S, H) ==
    /\ FileOk(W.cache, b, d, S, H)
    /\ SlotTypes(W.slot) /\ SlotIn(W.slot, d, S, H)
    /\ "write" \in faults => W.cache = c
    /\ "write" \notin faults => /\ W.cache.src = b.src
                                /\ KeepsRead(b, d, H) => HighsIn(W.cache, d, H)
    /\ W.cache.src = c.src /\ faults # {"read"} => KeepsDays(c.days, W.cache.days, d)

\* A selection keeps the invariant's parts, for any S that was said and any H that was heard.
LEMMA SelectKeeps ==
    ASSUME NEW u \in Begin .. End, NEW v \in Begin .. u, NEW b, Issued(b, v),
           NEW d, d = Day(u), NEW o \in Observations, NEW c, NEW faults \in SUBSET Faults,
           NEW S, Learnt(b) \union Misdated(b, d) \subseteq S,
           o # NoObservation => <<b.src, o.date, o.t>> \in S,
           NEW H, FileOk(c, b, d, S, H), Reads(b, d, H)
    PROVE  Outcome(Select(b, o, c, u, faults), b, c, faults, d, S, H)
  <1> DEFINE file == FileRead(c, faults)
             T == TodaySlot(b, o, file, u)
             W == Select(b, o, c, u, faults)
             later == FileRead(W.cache, faults)
  <1>0. d \in Dates /\ d + 1 \in Dates /\ d >= d /\ b.src \in Sources /\ c.days \in Days
    BY DatesFacts DEF Issued, FileOk
  <1>1. /\ W.cache = IF "write" \in faults THEN c ELSE T.cache
        /\ \/ W.slot = T.slot
           \/ ~Available(b, d) /\ W.slot = TomorrowSlot(b, later, u)
    BY SelectIs
  <1>2. FileOk(file, b, d, S, H) /\ file.days \in Days
    BY NoFileOk DEF FileRead, FileOk
  <1> HIDE DEF file
  <1>3. T.cache.days \in Days
    BY <1>2, TodayKeepsTypes
  <1>4. LowsIn(T.cache, d, S)
    BY <1>2, TodayKeepsLows DEF FileOk
  <1>5. HighsFound(T.cache, b, d, H)
    BY <1>2, TodayKeepsHighs DEF FileOk
  <1>6. /\ T.cache.src = b.src
        /\ T.slot.label = "TODAY" /\ T.slot.src = b.src /\ T.slot.date = d
        /\ T.slot.low = T.cache.days[d].low /\ T.slot.high = T.cache.days[d].high
    <2>1. IsTodaySlot(T, b, o, Load(file, b.src, d), u, d)
      BY <1>2, TodaySlotIs
    <2> HIDE DEF T
    <2> QED
      BY <2>1 DEF IsTodaySlot
  <1>7. FileOk(T.cache, b, d, S, H)
    <2> HIDE DEF T
    <2> QED
      BY <1>0, <1>3, <1>4, <1>5, <1>6 DEF FileOk, HighsFound
  <1>8. KeepsRead(b, d, H) => HighsIn(T.cache, d, H)
    <2> HIDE DEF T
    <2>1. \A e \in Dates : e >= d /\ T.cache.days[e].high # None => e = d
      BY <1>5 DEF HighsFound, HighsLeft
    <2>2. ASSUME KeepsRead(b, d, H), T.cache.days[d].high # None
          PROVE  H[d].kept \in {[src |-> T.cache.src, t |-> T.cache.days[d].high], Misread}
      BY <1>0, <1>5, <2>2 DEF HighsFound, HighsLeft, KeepsRead
    <2> QED
      BY <2>1, <2>2 DEF HighsIn
  <1>9. SlotTypes(T.slot) /\ SlotIn(T.slot, d, S, H)
    <2>1. T.cache.days[d].low \in Temperatures /\ T.cache.days[d].high \in Temperatures
      BY <1>0, <1>3 DEF Days
    <2> HIDE DEF T
    <2>2. SlotTypes(T.slot)
      BY <1>0, <1>6, <2>1 DEF SlotTypes
    <2>3. T.slot.low # None => <<b.src, d, T.slot.low>> \in S
      BY <1>0, <1>4, <1>6 DEF LowsIn
    <2>4. T.slot.high # None => \/ H[d].read \in {[src |-> b.src, t |-> T.slot.high], Misread}
                                \/ H[d].kept \in {[src |-> b.src, t |-> T.slot.high], Misread}
      BY <1>0, <1>5, <1>6 DEF HighsFound, HighsLeft
    <2> QED
      BY <1>6, <2>2, <2>3, <2>4 DEF SlotIn
  <1>10. FileOk(W.cache, b, d, S, H)
    <2> HIDE DEF T, W
    <2> QED
      BY <1>1, <1>7
  <1>11. ~Available(b, d) => /\ SlotTypes(TomorrowSlot(b, later, u))
                             /\ SlotIn(TomorrowSlot(b, later, u), d, S, H)
    <2>1. FileOk(later, b, d, S, H)
      <3> HIDE DEF W
      <3> QED
        BY <1>10, NoFileOk DEF FileRead
    <2> HIDE DEF later
    <2> QED
      BY <2>1, TomorrowKeeps
  <1>12. W.cache.src = c.src /\ faults # {"read"} => KeepsDays(c.days, W.cache.days, d)
    <2>1. CASE "write" \in faults
      <3> HIDE DEF T, W
      <3> QED
        BY <1>0, <1>1, <2>1, KeepsSame
    <2>2. CASE "write" \notin faults /\ "read" \notin faults
      <3>1. file = c
        BY <2>2 DEF file, FileRead
      <3>2. c.src = b.src => KeepsDays(c.days, T.cache.days, d)
        BY <1>0, <3>1, TodayKeepsDays
      <3> HIDE DEF T, W
      <3> QED
        BY <1>1, <1>6, <2>2, <3>2
    <2>3. CASE "write" \notin faults /\ "read" \in faults
      <3>1. faults = {"read"}
        BY <2>3 DEF Faults
      <3> QED
        BY <3>1
    <2> QED
      BY <2>1, <2>2, <2>3
  <1> HIDE DEF T, W, later
  <1> QED
    BY <1>1, <1>6, <1>8, <1>9, <1>10, <1>11, <1>12 DEF Outcome, W
-----------------------------------------------------------------------------
(* TodayForecast: the inductive invariant.                                   *)

TodayStateTypes ==
    /\ now \in Begin .. End /\ source \in Sources /\ issues \in 1 .. MaxIssues
    /\ bulletin.src = source /\ failures \in 0 .. MaxFailures
    /\ \E v \in Begin .. now : bulletin \in Bulletins[v]
    /\ lastGood.at \in 0 .. now /\ lastGood.observed \in Observations
    /\ lastGood.bulletin # <<>> => \E v \in Begin .. now : lastGood.bulletin \in Bulletins[v]
    /\ cache.src \in Sources \union {"none"} /\ cache.days \in Days /\ SlotTypes(slot)
    /\ said \subseteq Sources \X Dates \X Temperatures

TodayIInv ==
    /\ TodayStateTypes
    /\ LowsIn(cache, Day(now), said) /\ HighsIn(cache, Day(now), heard)
    /\ SlotIn(slot, Day(now), said, heard)

LEMMA TodayInitHolds == TodayInit => TodayIInv
  <1> SUFFICES ASSUME TodayInit
               PROVE  TodayIInv
    OBVIOUS
  <1>1. now \in Begin .. End /\ now \in Begin .. now /\ now = Begin /\ 0 \in 0 .. now
    BY TodayAssumption DEF TodayInit
  <1>2. Issued(bulletin, now)
    BY <1>1, BulletinIssued DEF TodayInit
  <1>3. source \in Sources /\ bulletin.src = source /\ issues \in 1 .. MaxIssues
        /\ failures \in 0 .. MaxFailures
    BY <1>2, TodayAssumption DEF TodayInit, Issued
  <1>4. None \in Temperatures
    BY TemperatureTypes
  <1>5. \A e \in Dates : cache.days[e] = [low |-> None, high |-> None]
    BY DEF TodayInit, NoFile, Unknown
  <1>6. cache.src = "none" /\ cache.days \in Days
    BY <1>4 DEF TodayInit, NoFile, Unknown, Days
  <1>7. /\ slot.label = "none" /\ slot.src = "none" /\ slot.date = 0
        /\ slot.low = None /\ slot.high = None
    BY DEF TodayInit
  <1>8. SlotTypes(slot)
    BY <1>4, <1>7 DEF SlotTypes
  <1>9. /\ lastGood.at \in 0 .. now /\ lastGood.observed \in Observations
        /\ lastGood.bulletin = <<>>
    BY <1>1 DEF TodayInit, Observations
  <1>10. bulletin \in Bulletins[now] /\ said = {}
    BY <1>1 DEF TodayInit
  <1>11. TodayStateTypes
    BY <1>1, <1>3, <1>6, <1>8, <1>9, <1>10 DEF TodayStateTypes
  <1>12. LowsIn(cache, Day(now), said) /\ HighsIn(cache, Day(now), heard)
    BY <1>5 DEF LowsIn, HighsIn
  <1>13. SlotIn(slot, Day(now), said, heard)
    BY <1>7 DEF SlotIn
  <1> QED
    BY <1>11, <1>12, <1>13 DEF TodayIInv

\* A bulletin of an earlier quarter is one of a later interval.
LEMMA LaterInterval ==
    ASSUME NEW u \in Begin .. End, NEW w \in Begin .. End, u <= w, NEW v \in Begin .. u
    PROVE  v \in Begin .. w /\ v \in Begin .. End
  BY TodayAssumption

\* Over midnight the claims about the day that ended are dropped, and none is added.
LEMMA QuarterKeeps == TodayIInv /\ QuarterPasses => TodayIInv'
  <1> SUFFICES ASSUME TodayIInv, QuarterPasses
               PROVE  TodayIInv'
    OBVIOUS
  <1> DEFINE d == Day(now)
             next == Day(now')
  <1>1. now \in Begin .. End /\ now' \in Begin .. End /\ now <= now' /\ now \in Nat /\ now' \in Nat
        /\ now' \in Begin .. now'
    BY TodayAssumption DEF TodayIInv, TodayStateTypes, QuarterPasses
  <1>2. d \in Nat /\ next \in Nat /\ d <= next /\ next # 0
    BY <1>1, QuarterFacts, DayMonotone, DatesFacts
  <1>3. UNCHANGED <<source, lastGood, cache, slot, failures>>
    BY DEF QuarterPasses
  <1>4. source \in Sources /\ issues' \in 1 .. MaxIssues
    BY TodayAssumption DEF TodayIInv, TodayStateTypes, QuarterPasses
  <1>5. bulletin'.src = source' /\ \E v \in Begin .. now' : bulletin' \in Bulletins[v]
    <2>1. CASE UNCHANGED bulletin
      BY <1>1, <1>3, <2>1, LaterInterval DEF TodayIInv, TodayStateTypes
    <2>2. CASE bulletin' \in {b \in Bulletins[now'] : b.src = source}
      BY <1>1, <1>3, <2>2
    <2> QED
      BY <2>1, <2>2 DEF QuarterPasses
  <1>6. lastGood.at \in 0 .. now'
    BY <1>1 DEF TodayIInv, TodayStateTypes
  <1>7. lastGood.bulletin # <<>> => \E v \in Begin .. now' : lastGood.bulletin \in Bulletins[v]
    BY <1>1, LaterInterval DEF TodayIInv, TodayStateTypes
  <1>8. said' \subseteq said
    BY DEF QuarterPasses
  <1>9. TodayStateTypes'
    <2>1. /\ lastGood.observed \in Observations /\ failures \in 0 .. MaxFailures
          /\ cache.src \in Sources \union {"none"} /\ cache.days \in Days /\ SlotTypes(slot)
          /\ said \subseteq Sources \X Dates \X Temperatures
      BY DEF TodayIInv, TodayStateTypes
    <2>2. SlotTypes(slot')
      BY <1>3, <2>1
    <2> QED
      BY <1>1, <1>3, <1>4, <1>5, <1>6, <1>7, <1>8, <2>1, <2>2 DEF TodayStateTypes, SlotTypes
  <1>10. \A x \in said : x[2] >= next => x \in said'
    BY DEF QuarterPasses
  <1>11. \A e \in Dates : e >= next => e >= d /\ heard'[e] = heard[e]
    <2> SUFFICES ASSUME NEW e \in Dates, e >= next
                 PROVE  e >= d /\ heard'[e] = heard[e]
      OBVIOUS
    <2>1. e \in Nat /\ ~(e < next)
      BY <1>1, <1>2, DatesFacts
    <2>2. heard'[e] = heard[e]
      BY <2>1 DEF QuarterPasses
    <2> QED
      BY <1>2, <2>1, <2>2
  <1> HIDE DEF next, d
  <1>12. LowsIn(cache, next, said')
    BY <1>10, <1>11 DEF LowsIn, TodayIInv, d
  <1>13. HighsIn(cache, next, heard')
    <2> SUFFICES ASSUME NEW e \in Dates, e >= next, cache.days[e].high # None
                 PROVE  e = next /\ heard'[e].kept \in {[src |-> cache.src, t |-> cache.days[e].high], Misread}
      BY DEF HighsIn
    <2>1. e >= d /\ heard'[e] = heard[e]
      BY <1>11
    <2>2. e = d /\ heard[e].kept \in {[src |-> cache.src, t |-> cache.days[e].high], Misread}
      BY <2>1 DEF HighsIn, TodayIInv, d
    <2> QED
      BY <1>2, <2>1, <2>2
  <1>14. SlotIn(slot, next, said', heard')
    <2> SUFFICES ASSUME slot.date >= next
                 PROVE  /\ slot.low # None => <<slot.src, slot.date, slot.low>> \in said'
                        /\ slot.high # None =>
                              {heard'[slot.date].read, heard'[slot.date].kept} \intersect
                                  {[src |-> slot.src, t |-> slot.high], Misread} # {}
      BY DEF SlotIn
    <2>1. slot.date \in Dates
      BY <1>2 DEF TodayIInv, TodayStateTypes, SlotTypes
    <2>2. slot.date >= d /\ heard'[slot.date] = heard[slot.date]
      BY <1>11, <2>1
    <2> QED
      BY <1>10, <2>2 DEF SlotIn, TodayIInv, d
  <1> QED
    BY <1>3, <1>9, <1>12, <1>13, <1>14 DEF TodayIInv, next, LowsIn, HighsIn, SlotIn

\* The bulletin of another source changes neither the file nor the slot.
LEMMA SourceKeeps == TodayIInv /\ ChangeSource => TodayIInv'
  <1> SUFFICES ASSUME TodayIInv, ChangeSource
               PROVE  TodayIInv'
    OBVIOUS
  <1>1. now \in Begin .. End /\ now \in Begin .. now /\ UNCHANGED <<now, lastGood, cache, slot, failures, said, heard>>
    BY TodayAssumption DEF TodayIInv, TodayStateTypes, ChangeSource
  <1>2. bulletin' \in Bulletins[now] /\ bulletin'.src = source'
    BY DEF ChangeSource
  <1>3. source' \in Sources
    BY <1>1, <1>2, BulletinIssued DEF Issued
  <1>4. issues' \in 1 .. MaxIssues
    BY TodayAssumption DEF TodayIInv, TodayStateTypes, ChangeSource
  <1>5. TodayStateTypes'
    <2>1. /\ lastGood.at \in 0 .. now /\ lastGood.observed \in Observations
          /\ failures \in 0 .. MaxFailures
          /\ lastGood.bulletin # <<>> => \E v \in Begin .. now : lastGood.bulletin \in Bulletins[v]
          /\ cache.src \in Sources \union {"none"} /\ cache.days \in Days /\ SlotTypes(slot)
          /\ said \subseteq Sources \X Dates \X Temperatures
      BY DEF TodayIInv, TodayStateTypes
    <2> QED
      BY <1>1, <1>2, <1>3, <1>4, <2>1 DEF TodayStateTypes, SlotTypes
  <1> QED
    BY <1>1, <1>5 DEF TodayIInv, LowsIn, HighsIn, SlotIn

\* What the step of a selection learns, if it has observed o.
Taught(b, o, d) == Learnt(b) \union Misdated(b, d)
                            \union {<<b.src, o.date, o.t>> : x \in {o} \ {NoObservation}}

LEMMA TaughtTypes ==
    ASSUME NEW u \in Begin .. End, NEW v \in Begin .. u, NEW b, Issued(b, v),
           NEW d, d = Day(u), NEW o \in Observations
    PROVE  Taught(b, o, d) \subseteq Sources \X Dates \X Temperatures
  <1>1. v \in Begin .. End /\ v \in Nat /\ d \in Dates /\ b.src \in Sources
    BY TodayAssumption, DatesFacts DEF Issued
  <1>2. \A p \in Range(b.periods) : p.t \in Temperatures
    BY PeriodTypes DEF Range
  <1>3. \A n \in DOMAIN b.cold : Day(b.cold[n].at) \in Dates
    <2> SUFFICES ASSUME NEW n \in DOMAIN b.cold
                 PROVE  Day(b.cold[n].at) \in Dates
      OBVIOUS
    <2> DEFINE at == b.cold[n].at
    <2>1. at \in v .. v + 4
      BY DEF Issued
    <2> HIDE DEF at
    <2>2. at \in Nat /\ v <= at /\ at <= v + 4 /\ v + 4 \in Nat
      BY <1>1, <2>1
    <2>3. Day(v) <= Day(at) /\ Day(at) <= Day(v + 4) /\ Day(at) \in Nat
      BY <1>1, <2>2, DayMonotone, QuarterFacts
    <2>4. Day(v + 4) = Day(v) + 1
      BY <1>1 DEF Day
    <2>5. Day(v) \in Nat
      BY <1>1, QuarterFacts
    <2>6. Day(at) \in Dates
      BY <1>1, <2>3, <2>4, <2>5, DatesFacts
    <2> QED
      BY <2>6 DEF at
  <1>4. o # NoObservation => o.date \in Dates /\ o.t \in Temperatures
    BY TemperatureTypes DEF Observations
  <1>5. Learnt(b) \subseteq Sources \X Dates \X Temperatures
    BY <1>1, <1>2, <1>3 DEF Learnt
  <1>6. Misdated(b, d) \subseteq Sources \X Dates \X Temperatures
    <2>1. d + 1 \in Dates
      BY DatesFacts
    <2> QED
      BY <1>1, <1>2, <2>1 DEF Misdated
  <1> QED
    BY <1>1, <1>4, <1>5, <1>6 DEF Taught

\* What is heard while a bulletin is read is what the bulletin says, and it is kept if the
\* file could be written.
LEMMA HearReads ==
    ASSUME NEW b, NEW d, NEW written \in BOOLEAN
    PROVE  LET H == Hear(b, d, written)
           IN  /\ Reads(b, d, H)
               /\ written => KeepsRead(b, d, H)
               /\ \A e \in Dates :
                     ~written \/ DaytimeIndex(b, e, d) = 0 => H[e].kept = heard[e].kept
  <1> DEFINE H == Hear(b, d, written)
  <1>1. ASSUME NEW e \in Dates, DaytimeIndex(b, e, d) # 0
        PROVE  \E new \in {[src |-> b.src, t |-> b.periods[DaytimeIndex(b, e, d)].t], Misread} :
                  H[e] = [read |-> new, kept |-> IF written THEN new ELSE heard[e].kept]
    BY <1>1 DEF Hear
  <1>2. ASSUME NEW e \in Dates, DaytimeIndex(b, e, d) = 0
        PROVE  H[e] = heard[e]
    BY <1>2 DEF Hear
  <1> HIDE DEF H
  <1>3. ASSUME NEW e \in Dates, DaytimeIndex(b, e, d) # 0
        PROVE  /\ H[e].read \in {[src |-> b.src, t |-> b.periods[DaytimeIndex(b, e, d)].t], Misread}
               /\ written => H[e].kept = H[e].read
               /\ ~written => H[e].kept = heard[e].kept
    <2>1. PICK new \in {[src |-> b.src, t |-> b.periods[DaytimeIndex(b, e, d)].t], Misread} :
            H[e] = [read |-> new, kept |-> IF written THEN new ELSE heard[e].kept]
      BY <1>1, <1>3
    <2> QED
      BY <2>1
  <1>4. Reads(b, d, H)
    BY <1>3 DEF Reads
  <1>5. written => KeepsRead(b, d, H)
    BY <1>3 DEF KeepsRead
  <1>6. \A e \in Dates : ~written \/ DaytimeIndex(b, e, d) = 0 => H[e].kept = heard[e].kept
    BY <1>2, <1>3
  <1> QED
    BY <1>4, <1>5, <1>6 DEF H

\* The file as a step finds it, while a bulletin is read.
LEMMA FileStands ==
    ASSUME TodayIInv, NEW v \in Begin .. now, NEW b \in Bulletins[v], NEW o \in Observations,
           NEW d, d = Day(now), NEW written \in BOOLEAN
    PROVE  LET S == said \union Taught(b, o, d)
               H == Hear(b, d, written)
           IN  /\ FileOk(cache, b, d, S, H)
               /\ ~written => HighsIn(cache, d, H)
               /\ S \subseteq Sources \X Dates \X Temperatures
               /\ b.src \in Sources
  <1> DEFINE S == said \union Taught(b, o, d)
             H == Hear(b, d, written)
  <1>1. now \in Begin .. End /\ v \in Begin .. End
    BY LaterInterval, TodayAssumption DEF TodayIInv, TodayStateTypes
  <1>2. Issued(b, v)
    BY <1>1, BulletinIssued
  <1>3. LowsIn(cache, d, S)
    BY DEF LowsIn, TodayIInv
  <1>4. \A e \in Dates : ~written \/ DaytimeIndex(b, e, d) = 0 => H[e].kept = heard[e].kept
    BY HearReads
  <1>5. HighsIn(cache, d, heard)
    BY DEF TodayIInv
  <1> HIDE DEF H
  <1>6. HighsLeft(cache, b, d, H)
    BY <1>4, <1>5 DEF HighsLeft, HighsIn
  <1>7. ~written => HighsIn(cache, d, H)
    BY <1>4, <1>5 DEF HighsIn
  <1>8. Taught(b, o, d) \subseteq Sources \X Dates \X Temperatures
    BY <1>1, <1>2, TaughtTypes
  <1>9. S \subseteq Sources \X Dates \X Temperatures
    BY <1>8 DEF TodayIInv, TodayStateTypes
  <1>10. b.src \in Sources
    BY <1>2 DEF Issued
  <1>11. FileOk(cache, b, d, S, H)
    BY <1>3, <1>6 DEF FileOk, TodayIInv, TodayStateTypes
  <1> QED
    BY <1>7, <1>9, <1>10, <1>11 DEF H

\* A selection of a step, from the file c that it finds or has left.
LEMMA ReadKeeps ==
    ASSUME TodayIInv, NEW v \in Begin .. now, NEW b \in Bulletins[v], NEW o \in Observations,
           NEW p \in {NoObservation, o}, NEW d, d = Day(now), NEW written \in BOOLEAN,
           NEW c, FileOk(c, b, d, said \union Taught(b, o, d), Hear(b, d, written)),
           NEW faults \in SUBSET Faults
    PROVE  Outcome(Select(b, p, c, now, faults), b, c, faults, d,
                   said \union Taught(b, o, d), Hear(b, d, written))
  <1> DEFINE S == said \union Taught(b, o, d)
             H == Hear(b, d, written)
  <1>1. now \in Begin .. End /\ v \in Begin .. End
    BY LaterInterval, TodayAssumption DEF TodayIInv, TodayStateTypes
  <1>2. Issued(b, v)
    BY <1>1, BulletinIssued
  <1>3. Learnt(b) \union Misdated(b, d) \subseteq S
    BY DEF Taught
  <1>4. p # NoObservation => <<b.src, p.date, p.t>> \in S
    BY DEF Taught
  <1>5. Reads(b, d, H)
    BY HearReads
  <1>6. p \in Observations
    BY DEF Observations
  <1> HIDE DEF S, H
  <1>7. FileOk(c, b, d, S, H)
    BY DEF S, H
  <1>8. Outcome(Select(b, p, c, now, faults), b, c, faults, d, S, H)
    BY <1>1, <1>2, <1>3, <1>4, <1>5, <1>6, <1>7, SelectKeeps
  <1> QED
    BY <1>8 DEF S, H

\* The bound on the selections that fail.
LEMMA FailedBound ==
    ASSUME NEW n \in 0 .. MaxFailures, NEW faults \in Failing(n)
    PROVE  faults \in SUBSET Faults /\ Failed(n, faults) \in 0 .. MaxFailures
  <1>1. MaxFailures \in Nat
    BY TodayAssumption
  <1>2. CASE n < MaxFailures
    BY <1>1, <1>2 DEF Failing, Failed
  <1>3. CASE ~(n < MaxFailures)
    <2>1. faults = {}
      BY <1>3 DEF Failing
    <2> QED
      BY <1>1, <2>1 DEF Failed
  <1> QED
    BY <1>2, <1>3

\* What a step that reads a bulletin leaves.
LEMMA AfterReading ==
    ASSUME TodayIInv, UNCHANGED world, NEW d, d = Day(now), NEW b,
           NEW o \in Observations, NEW written \in BOOLEAN,
           Learn(b, o), heard' = Hear(b, d, written), failures' \in 0 .. MaxFailures,
           FileOk(cache', b, d, said \union Taught(b, o, d), Hear(b, d, written)),
           HighsIn(cache', d, Hear(b, d, written)),
           SlotTypes(slot'), SlotIn(slot', d, said \union Taught(b, o, d), Hear(b, d, written)),
           said \union Taught(b, o, d) \subseteq Sources \X Dates \X Temperatures,
           lastGood'.at \in 0 .. now, lastGood'.observed \in Observations,
           lastGood'.bulletin # <<>> => \E v \in Begin .. now : lastGood'.bulletin \in Bulletins[v]
    PROVE  TodayIInv'
  <1>1. said' = said \union Taught(b, o, d)
    BY DEF Learn, Taught
  <1>2. now' = now /\ source' = source /\ bulletin' = bulletin /\ issues' = issues /\ Day(now') = d
    BY DEF world
  <1>3. /\ now \in Begin .. End /\ source \in Sources /\ issues \in 1 .. MaxIssues
        /\ bulletin.src = source /\ \E v \in Begin .. now : bulletin \in Bulletins[v]
    BY DEF TodayIInv, TodayStateTypes
  <1>4. TodayStateTypes'
    <2>1. SlotTypes(slot)'
      BY DEF SlotTypes
    <2>2. said' \subseteq Sources \X Dates \X Temperatures
      BY <1>1
    <2>3. cache'.src \in Sources \union {"none"} /\ cache'.days \in Days
      BY DEF FileOk
    <2> HIDE DEF world
    <2> QED
      BY <1>2, <1>3, <2>1, <2>2, <2>3 DEF TodayStateTypes
  <1>5. LowsIn(cache, Day(now), said)'
    BY <1>1, <1>2 DEF LowsIn, FileOk
  <1>6. HighsIn(cache, Day(now), heard)'
    BY <1>2 DEF HighsIn
  <1>7. SlotIn(slot, Day(now), said, heard)'
    BY <1>1, <1>2 DEF SlotIn
  <1> QED
    BY <1>4, <1>5, <1>6, <1>7 DEF TodayIInv

\* Nothing of today and tomorrow is forgotten, unless a file was replaced unread.
Keeps == cache'.src = cache.src /\ ~replaced' => KeepsDays(cache.days, cache'.days, Day(now'))

\* A step that selects once from b: a run whose first slot is shown, or a replay.
LEMMA OnceKeeps ==
    ASSUME TodayIInv, NEW v \in Begin .. now, NEW b \in Bulletins[v], NEW o \in Observations,
           UNCHANGED world, NEW faults \in Failing(failures),
           Selected(b, o, Select(b, o, cache, now, faults), {faults}, Failed(failures, faults)),
           lastGood'.at \in 0 .. now, lastGood'.observed \in Observations,
           lastGood'.bulletin # <<>> => \E w \in Begin .. now : lastGood'.bulletin \in Bulletins[w]
    PROVE  TodayIInv' /\ Keeps
  <1> DEFINE d == Day(now)
             W == Select(b, o, cache, now, faults)
             written == "write" \notin faults
             S == said \union Taught(b, o, d)
             H == Hear(b, d, written)
  <1>1. failures \in 0 .. MaxFailures
    BY DEF TodayIInv, TodayStateTypes
  <1>2. faults \in SUBSET Faults /\ Failed(failures, faults) \in 0 .. MaxFailures
    BY <1>1, FailedBound
  <1>3. /\ cache' = W.cache /\ slot' = W.slot /\ failures' \in 0 .. MaxFailures
        /\ Learn(b, o) /\ heard' = H /\ replaced' = ({"read"} \in {faults})
    BY <1>2 DEF Selected
  <1>4. written \in BOOLEAN
    OBVIOUS
  <1>5. /\ FileOk(cache, b, d, S, H) /\ (~written => HighsIn(cache, d, H))
        /\ S \subseteq Sources \X Dates \X Temperatures
    BY <1>4, FileStands
  <1>6. Outcome(W, b, cache, faults, d, S, H)
    BY <1>2, <1>4, <1>5, ReadKeeps
  <1>7. written => KeepsRead(b, d, H)
    BY <1>4, HearReads
  <1> HIDE DEF W, S, H
  <1>8. /\ FileOk(W.cache, b, d, S, H) /\ HighsIn(W.cache, d, H)
        /\ SlotTypes(W.slot) /\ SlotIn(W.slot, d, S, H)
    BY <1>5, <1>6, <1>7 DEF Outcome
  <1>9. TodayIInv'
    <2>1. /\ FileOk(cache', b, d, said \union Taught(b, o, d), Hear(b, d, written))
          /\ HighsIn(cache', d, Hear(b, d, written))
          /\ SlotTypes(slot') /\ SlotIn(slot', d, said \union Taught(b, o, d), Hear(b, d, written))
          /\ said \union Taught(b, o, d) \subseteq Sources \X Dates \X Temperatures
          /\ heard' = Hear(b, d, written)
      BY <1>3, <1>5, <1>8 DEF S, H
    <2> HIDE DEF written
    <2> QED
      BY <1>3, <1>4, <2>1, AfterReading
  <1>10. Keeps
    <2>1. Day(now') = d
      BY DEF world
    <2> HIDE DEF d
    <2> QED
      BY <1>3, <1>6, <2>1 DEF Keeps, Outcome
  <1> QED
    BY <1>9, <1>10

\* A run that selects again, with what was observed, from the file it has left.
LEMMA TwiceKeeps ==
    ASSUME TodayIInv, NEW v \in Begin .. now, NEW b \in Bulletins[v], NEW o \in Observations,
           UNCHANGED world, NEW faults \in Failing(failures),
           NEW again \in Failing(Failed(failures, faults)),
           NEW first, first = Select(b, NoObservation, cache, now, faults),
           Selected(b, o, Select(b, o, first.cache, now, again), {faults, again},
                    Failed(Failed(failures, faults), again)),
           lastGood'.at \in 0 .. now, lastGood'.observed \in Observations,
           lastGood'.bulletin # <<>> => \E w \in Begin .. now : lastGood'.bulletin \in Bulletins[w]
    PROVE  TodayIInv' /\ Keeps
  <1> DEFINE d == Day(now)
             W == Select(b, o, first.cache, now, again)
             written == "write" \notin faults \/ "write" \notin again
             S == said \union Taught(b, o, d)
             H == Hear(b, d, written)
  <1>1. failures \in 0 .. MaxFailures
    BY DEF TodayIInv, TodayStateTypes
  <1>2. faults \in SUBSET Faults /\ Failed(failures, faults) \in 0 .. MaxFailures
    BY <1>1, FailedBound
  <1>3. again \in SUBSET Faults /\ Failed(Failed(failures, faults), again) \in 0 .. MaxFailures
    BY <1>2, FailedBound
  <1>4. (\E x \in {faults, again} : "write" \notin x) = written
    OBVIOUS
  <1>5. /\ cache' = W.cache /\ slot' = W.slot /\ failures' \in 0 .. MaxFailures
        /\ Learn(b, o) /\ heard' = H /\ replaced' = ({"read"} \in {faults, again})
    BY <1>3, <1>4 DEF Selected
  <1>6. written \in BOOLEAN
    OBVIOUS
  <1> HIDE DEF written
  <1>7. /\ FileOk(cache, b, d, S, H) /\ (~written => HighsIn(cache, d, H))
        /\ S \subseteq Sources \X Dates \X Temperatures
    BY <1>6, FileStands
  <1>8. Outcome(first, b, cache, faults, d, S, H)
    BY <1>2, <1>6, <1>7, ReadKeeps
  <1>9. FileOk(first.cache, b, d, S, H)
    BY <1>8 DEF Outcome
  <1>10. Outcome(W, b, first.cache, again, d, S, H)
    BY <1>3, <1>6, <1>9, ReadKeeps
  <1>11. written => KeepsRead(b, d, H)
    BY <1>6, HearReads
  <1> HIDE DEF W, S, H
  <1>12. /\ FileOk(W.cache, b, d, S, H)
         /\ SlotTypes(W.slot) /\ SlotIn(W.slot, d, S, H)
    BY <1>10 DEF Outcome
  <1>13. HighsIn(W.cache, d, H)
    <2>1. CASE "write" \notin again
      BY <1>10, <1>11, <2>1 DEF Outcome, written
    <2>2. CASE "write" \in again /\ "write" \notin faults
      BY <1>8, <1>10, <1>11, <2>2 DEF Outcome, written
    <2>3. CASE "write" \in again /\ "write" \in faults
      BY <1>7, <1>8, <1>10, <2>3 DEF Outcome, written
    <2> QED
      BY <2>1, <2>2, <2>3
  <1>14. TodayIInv'
    <2>1. /\ FileOk(cache', b, d, said \union Taught(b, o, d), Hear(b, d, written))
          /\ HighsIn(cache', d, Hear(b, d, written))
          /\ SlotTypes(slot') /\ SlotIn(slot', d, said \union Taught(b, o, d), Hear(b, d, written))
          /\ said \union Taught(b, o, d) \subseteq Sources \X Dates \X Temperatures
          /\ heard' = Hear(b, d, written)
      BY <1>5, <1>7, <1>12, <1>13 DEF S, H
    <2> QED
      BY <1>5, <1>6, <2>1, AfterReading
  <1>15. Keeps
    <2> SUFFICES ASSUME cache'.src = cache.src, ~replaced'
                 PROVE  KeepsDays(cache.days, cache'.days, Day(now'))
      BY DEF Keeps
    <2>1. faults # {"read"} /\ again # {"read"} /\ W.cache.src = cache.src
      BY <1>5
    <2>2. d \in Dates /\ d + 1 \in Dates /\ Day(now') = d
      BY DatesFacts DEF world, TodayIInv, TodayStateTypes
    <2>3. cache.days \in Days /\ first.cache.days \in Days /\ W.cache.days \in Days
      BY <1>7, <1>9, <1>12 DEF FileOk
    <2> HIDE DEF d
    <2>4. first.cache.src = cache.src /\ W.cache.src = first.cache.src
      <3>1. CASE "write" \in faults
        BY <1>8, <2>1, <3>1 DEF Outcome
      <3>2. CASE "write" \notin faults
        BY <1>8, <1>10, <2>1, <3>2 DEF Outcome
      <3> QED
        BY <3>1, <3>2
    <2>5. KeepsDays(cache.days, first.cache.days, d)
      BY <1>8, <2>1, <2>4 DEF Outcome
    <2>6. KeepsDays(first.cache.days, W.cache.days, d)
      BY <1>10, <2>1, <2>4 DEF Outcome
    <2>7. KeepsDays(cache.days, W.cache.days, d)
      BY <2>2, <2>3, <2>5, <2>6, KeepsTwice
    <2> QED
      BY <1>5, <2>2, <2>7
  <1> QED
    BY <1>14, <1>15

\* What a run saves as the last good forecast, if it saves one.
LEMMA SavedTypes ==
    ASSUME TodayIInv, NEW o \in Observations,
           lastGood' \in {[bulletin |-> bulletin, observed |-> o, at |-> now], lastGood}
    PROVE  /\ lastGood'.at \in 0 .. now /\ lastGood'.observed \in Observations
           /\ lastGood'.bulletin # <<>> =>
                 \E w \in Begin .. now : lastGood'.bulletin \in Bulletins[w]
  <1>1. CASE lastGood' = lastGood
    BY <1>1 DEF TodayIInv, TodayStateTypes
  <1>2. CASE lastGood' = [bulletin |-> bulletin, observed |-> o, at |-> now]
    <2>1. now \in 0 .. now
      BY DatesFacts DEF TodayIInv, TodayStateTypes
    <2> QED
      BY <1>2, <2>1 DEF TodayIInv, TodayStateTypes
  <1> QED
    BY <1>1, <1>2

\* A run selects once or twice from one bulletin.
LEMMA RunKeeps == TodayIInv /\ Run => TodayIInv' /\ Keeps
  <1> SUFFICES ASSUME TodayIInv, Run
               PROVE  TodayIInv' /\ Keeps
    OBVIOUS
  <1>1. PICK v \in Begin .. now : bulletin \in Bulletins[v]
    BY DEF TodayIInv, TodayStateTypes
  <1>2. Day(now) \in Dates
    BY DatesFacts DEF TodayIInv, TodayStateTypes
  <1>3. NoObservation \in Observations /\ ObservedLow \subseteq Observations
    BY <1>2, TodayAssumption DEF Observations, ObservedLow
  <1>4. UNCHANGED world
    BY DEF Run
  <1> DEFINE Select1(x) == Select(bulletin, NoObservation, cache, now, x)
  <1>5. PICK faults \in Failing(failures) :
          \/ /\ Selected(bulletin, NoObservation, Select1(faults), {faults}, Failed(failures, faults))
             /\ lastGood' \in {[bulletin |-> bulletin, observed |-> NoObservation, at |-> now], lastGood}
          \/ \E o \in ObservedLow, again \in Failing(Failed(failures, faults)) :
               /\ Selected(bulletin, o, Select(bulletin, o, Select1(faults).cache, now, again),
                           {faults, again}, Failed(Failed(failures, faults), again))
               /\ lastGood' \in {[bulletin |-> bulletin, observed |-> o, at |-> now], lastGood}
    BY DEF Run
  <1>6. CASE /\ Selected(bulletin, NoObservation, Select1(faults), {faults}, Failed(failures, faults))
             /\ lastGood' \in {[bulletin |-> bulletin, observed |-> NoObservation, at |-> now], lastGood}
    <2>1. /\ lastGood'.at \in 0 .. now /\ lastGood'.observed \in Observations
          /\ lastGood'.bulletin # <<>> =>
                \E w \in Begin .. now : lastGood'.bulletin \in Bulletins[w]
      BY <1>3, <1>6, SavedTypes
    <2> QED
      BY <1>1, <1>3, <1>4, <1>6, <2>1, OnceKeeps
  <1>7. ASSUME NEW o \in ObservedLow, NEW again \in Failing(Failed(failures, faults)),
               Selected(bulletin, o, Select(bulletin, o, Select1(faults).cache, now, again),
                        {faults, again}, Failed(Failed(failures, faults), again)),
               lastGood' \in {[bulletin |-> bulletin, observed |-> o, at |-> now], lastGood}
        PROVE  TodayIInv' /\ Keeps
    <2>1. /\ lastGood'.at \in 0 .. now /\ lastGood'.observed \in Observations
          /\ lastGood'.bulletin # <<>> =>
                \E w \in Begin .. now : lastGood'.bulletin \in Bulletins[w]
      BY <1>3, <1>7, SavedTypes
    <2> QED
      BY <1>1, <1>3, <1>4, <1>7, <2>1, TwiceKeeps
  <1> QED
    BY <1>5, <1>6, <1>7

\* The last good forecast is a bulletin of an earlier quarter.
LEMMA ReplayKeeps == TodayIInv /\ Replay => TodayIInv' /\ Keeps
  <1> SUFFICES ASSUME TodayIInv, Replay
               PROVE  TodayIInv' /\ Keeps
    OBVIOUS
  <1> DEFINE b == lastGood.bulletin
             o == lastGood.observed
  <1>1. PICK v \in Begin .. now : b \in Bulletins[v]
    BY DEF TodayIInv, TodayStateTypes, Replay
  <1>2. o \in Observations
    BY DEF TodayIInv, TodayStateTypes
  <1>3. PICK faults \in Failing(failures) :
          Selected(b, o, Select(b, o, cache, now, faults), {faults}, Failed(failures, faults))
    BY DEF Replay
  <1>4. UNCHANGED world /\ lastGood' = lastGood
    BY DEF Replay
  <1>5. /\ lastGood'.at \in 0 .. now /\ lastGood'.observed \in Observations
        /\ lastGood'.bulletin # <<>> => \E w \in Begin .. now : lastGood'.bulletin \in Bulletins[w]
    BY <1>4 DEF TodayIInv, TodayStateTypes
  <1> HIDE DEF b, o
  <1> QED
    BY <1>1, <1>2, <1>3, <1>4, <1>5, OnceKeeps

\* Keeps for a step that leaves the file alone.
LEMMA CacheStands == TodayIInv /\ TodayIInv' /\ UNCHANGED cache => Keeps
  <1> SUFFICES ASSUME TodayIInv, TodayIInv', UNCHANGED cache
               PROVE  KeepsDays(cache.days, cache'.days, Day(now'))
    BY DEF Keeps
  <1>1. cache.days \in Days /\ now' \in Begin .. End
    BY DEF TodayIInv, TodayStateTypes
  <1> QED
    BY <1>1, DatesFacts, KeepsSame

\* One step for each action of the daily slot.
LEMMA TodayStep ==
    ASSUME TodayIInv, [TodayNext]_todayVars
    PROVE  TodayIInv' /\ (TodayNext => Keeps)
  <1>1. CASE QuarterPasses
    <2>1. UNCHANGED cache
      BY <1>1 DEF QuarterPasses
    <2> QED
      BY <1>1, <2>1, QuarterKeeps, CacheStands
  <1>2. CASE ChangeSource
    <2>1. UNCHANGED cache
      BY <1>2 DEF ChangeSource
    <2> QED
      BY <1>2, <2>1, SourceKeeps, CacheStands
  <1>3. CASE Run
    BY <1>3, RunKeeps
  <1>4. CASE Replay
    BY <1>4, ReplayKeeps
  <1>5. CASE UNCHANGED todayVars
    <2>1. TodayIInv'
      BY <1>5 DEF todayVars, TodayIInv, TodayStateTypes, LowsIn, HighsIn, SlotIn, SlotTypes
    <2>2. UNCHANGED cache
      BY <1>5 DEF todayVars
    <2> QED
      BY <2>1, <2>2, CacheStands
  <1> QED
    BY <1>1, <1>2, <1>3, <1>4, <1>5 DEF TodayNext

\* The dates and labels of TodayTypes, and what the statements speak of, follow.
LEMMA TodaySays == TodayIInv => TodayInv /\ HighTrue
  <1> SUFFICES ASSUME TodayIInv
               PROVE  TodayInv /\ HighTrue
    OBVIOUS
  <1>1. now \in Begin .. End
    BY DEF TodayIInv, TodayStateTypes
  <1>2. Day(now) \in Dates /\ Day(now) + 1 \in Dates /\ Day(now) \in Nat
    BY <1>1, DatesFacts
  <1>3. TodayTypes
    <2>1. Days = [Dates -> [low : Temperatures, high : Temperatures]]
      BY DEF Days
    <2> QED
      BY <2>1 DEF TodayIInv, TodayStateTypes, SlotTypes, TodayTypes
  <1>4. ASSUME NEW x \in Stated
        PROVE  /\ x.low # None => <<x.src, x.date, x.low>> \in said
               /\ x.high # None =>
                     {heard[x.date].read, heard[x.date].kept} \intersect
                         {[src |-> x.src, t |-> x.high], Misread} # {}
    <2>1. CASE \E e \in Day(now) .. Day(now) + 1 :
                 x = [src |-> cache.src, date |-> e, low |-> cache.days[e].low, high |-> cache.days[e].high]
      <3>1. PICK e \in Day(now) .. Day(now) + 1 :
              x = [src |-> cache.src, date |-> e, low |-> cache.days[e].low, high |-> cache.days[e].high]
        BY <2>1
      <3>2. x.src = cache.src /\ x.date = e /\ x.low = cache.days[e].low /\ x.high = cache.days[e].high
        BY <3>1
      <3>3. e \in Dates /\ e >= Day(now)
        BY <1>2
      <3> QED
        BY <3>2, <3>3 DEF TodayIInv, LowsIn, HighsIn
    <2>2. CASE /\ slot.date \in Day(now) .. Day(now) + 1
               /\ x = [src |-> slot.src, date |-> slot.date, low |-> slot.low, high |-> slot.high]
      <3>1. x.src = slot.src /\ x.date = slot.date /\ x.low = slot.low /\ x.high = slot.high
        BY <2>2
      <3>2. slot.date >= Day(now)
        BY <1>2, <2>2
      <3> QED
        BY <3>1, <3>2 DEF TodayIInv, SlotIn
    <2> QED
      BY <2>1, <2>2 DEF Stated
  <1> QED
    BY <1>3, <1>4 DEF TodayInv, OwnDay, HighTrue

\* No low is shown or kept for a date it does not belong to, whatever the order of the
\* runs, the replays, the bulletins, the changes of source and the midnights, and whichever
\* reads and writes of the file fail (night_low_occurrence, build_today_slot,
\* build_tomorrow_slot).  Two bulletins are excepted (Misdated): that of the day before, and
\* one without a number for the day it was issued.
THEOREM TodayCorrect == TodaySpec => []TodayInv
  <1>1. TodayIInv /\ [TodayNext]_todayVars => TodayIInv'
    BY TodayStep
  <1> QED
    BY <1>1, TodayInitHolds, TodaySays, PTL DEF TodaySpec

\* A high shown or kept for a date is one its source said of that date: the last one read,
\* or, where the file could not be written, the last one kept (official_high_from_condition
\* before the high of the file).  Yesterday's bulletin is excepted.
THEOREM TodayHighs == TodaySpec => []HighTrue
  <1>1. TodayIInv /\ [TodayNext]_todayVars => TodayIInv'
    BY TodayStep
  <1> QED
    BY <1>1, TodayInitHolds, TodaySays, PTL DEF TodaySpec

\* What the file knows of today and tomorrow outlives the bulletin that said it, unless the
\* file could not be read and was written anew (load_today_extremes_cache,
\* write_today_extremes_cache).
THEOREM TodayKept == TodaySpec => ExtremesKept
  <1>1. TodayIInv /\ [TodayNext]_todayVars => TodayIInv'
    BY TodayStep
  <1>2. TodayIInv /\ [TodayNext]_todayVars =>
          [cache'.src = cache.src /\ ~replaced' =>
             \A d \in Day(now')..Day(now') + 1 :
                /\ cache'.days[d].low <= cache.days[d].low
                /\ cache.days[d].high # None => cache'.days[d].high # None]_todayVars
    <2> SUFFICES ASSUME TodayIInv, TodayNext, cache'.src = cache.src, ~replaced',
                        NEW d \in Day(now')..Day(now') + 1
                 PROVE  /\ cache'.days[d].low <= cache.days[d].low
                        /\ cache.days[d].high # None => cache'.days[d].high # None
      OBVIOUS
    <2>1. TodayIInv' /\ Keeps
      BY TodayStep
    <2>2. Day(now') \in Nat
      <3>1. now' \in Begin .. End
        BY <2>1 DEF TodayIInv, TodayStateTypes
      <3> QED
        BY <3>1, DatesFacts
    <2>3. d \in {Day(now'), Day(now') + 1}
      BY <2>2
    <2> QED
      BY <2>1, <2>3 DEF Keeps, KeepsDays
  <1> QED
    BY <1>1, <1>2, TodayInitHolds, PTL DEF TodaySpec, ExtremesKept

=============================================================================
