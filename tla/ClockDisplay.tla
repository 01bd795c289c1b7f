----------------------------- MODULE ClockDisplay -----------------------------
(***************************************************************************)
(* The OLED of the core daemon: which screen it shows, at what brightness, *)
(* and how a finger on the touch sensor changes it.  The main loop is the  *)
(* only writer of the panel; the IPC and room sensor threads, the audio    *)
(* player and the touch thread change what it should show and raise        *)
(* display_dirty, which the loop takes under the lock before it reads the  *)
(* rest.  The panel is behind an SPI bus whose writes may fail.            *)
(*                                                                         *)
(* A picture is the screen with what it shows of the weather, the room and *)
(* the settings; the time of day is left out, it is rewritten every second *)
(* anyway.  Durations are counted in ticks.                                *)
(***************************************************************************)
EXTENDS Naturals

CONSTANTS Contents,      \* what the clock screen may show besides the time
          Levels, Full,  \* brightness in percent, and 100
          DiagnosticFor  \* DIAGNOSTIC_SCREEN_SECONDS

ASSUME DisplayAssumption ==
    Full \in Levels /\ DiagnosticFor \in Nat \ {0}

VARIABLES content,   \* g_weather, g_room_sensor and the display settings
          posting,   \* "none"; "flag", a thread has changed them and not yet raised
                     \* display_dirty; "late", history: it had raised it too early
          screen,    \* display_mode, diagnostic_return_mode, diagnostic_until (ticks left)
          chosen,    \* history: the screen last asked for, diagnostics apart
          dirty,     \* g_state.display_dirty
          wanted,    \* the brightness the preview, or else the bedtime settings, give now
          bright,    \* oled_brightness_current
          spi,       \* whether the bus takes writes
          frame,     \* g_oled: fb, prev_valid, and preview_fb with the level it was sent at
          panel,     \* what the panel shows
          loop       \* the locals of main, where it is, and whether its pass has
                     \* a reason to draw: dirty, or mode # last_mode

vars == <<content, posting, screen, chosen, dirty, wanted, bright, spi, frame,
          panel, loop>>
unowed == <<content, wanted, spi>>
environment == <<unowed, posting>>

Clock(c) == [kind |-> "clock", of |-> c]
Clear == [kind |-> "clear"]
Diagnostics == [kind |-> "diagnostics"]
Mixed == [kind |-> "mixed"]        \* a write that failed half way
Pictures == {Clock(c) : c \in Contents} \union {Clear, Diagnostics}
Shown(picture, level) == [picture |-> picture, level |-> level]

----------------------------------------------------------------------------
(* The panel.                                                               *)

\* A variant of Write: what failed is remembered as sent.
Write_Remembers(picture, full) ==
    LET everything == full \/ ~frame.valid
        sent == Shown(picture, bright)
    IN IF ~everything /\ frame.sent.picture = picture
       THEN frame' = [frame EXCEPT !.fb = picture] /\ UNCHANGED panel
       ELSE /\ frame' = [fb |-> picture, valid |-> TRUE, sent |-> sent]
            /\ IF spi = "up" THEN panel' = sent ELSE UNCHANGED panel

\* oled_flush_full (full) and oled_flush of picture, drawn into fb.  A partial flush sends
\* what differs from the last frame sent, nothing when that is the same; a failed one is
\* not remembered as sent, but may have changed the panel, and a partial one does not
\* repair what it left.
Write(picture, full) ==
    LET everything == full \/ ~frame.valid
        sent == Shown(picture, bright)
    IN IF ~everything /\ frame.sent.picture = picture
       THEN /\ frame' = [frame EXCEPT !.fb = picture]
            /\ UNCHANGED panel
       ELSE IF spi = "up"
       THEN /\ frame' = [fb |-> picture, valid |-> TRUE, sent |-> sent]
            /\ panel' = IF ~everything /\ panel.picture = Mixed THEN panel ELSE sent
       ELSE /\ frame' = [frame EXCEPT !.fb = picture]
            /\ panel' \in {panel, Shown(Mixed, Full)}

\* draw_weather_dashboard_screen, draw_diagnostic_screen, and the blank screen.
Draw(mode) ==
    CASE mode = "clock"       -> Write(Clock(content), FALSE)
      [] mode = "clear"       -> Write(Clear, TRUE)
      [] mode = "diagnostics" -> Write(Diagnostics, TRUE)

KeepPanel == UNCHANGED <<frame, panel>>

\* apply_bedtime_brightness and oled_set_brightness_percent: the commands may fail, and are
\* sent again in the next pass; after a change the next flush sends the whole frame.
BrightnessSet == wanted # bright /\ spi = "up"
ApplyBrightness ==
    /\ bright' = IF BrightnessSet THEN wanted ELSE bright
    /\ frame' = IF BrightnessSet THEN [frame EXCEPT !.valid = FALSE] ELSE frame

----------------------------------------------------------------------------
(* The main loop.  The passes are those in which a second has passed; one   *)
(* that finds nothing to do in between leaves no trace.                     *)

Go(l) == loop' = l
At(place) == loop.at = place

\* check_alarm: an alarm asks for the clock; it is saved, and plays (AudioChanges), later.
FireAlarm ==
    /\ At("top")
    /\ screen' = [screen EXCEPT !.mode = "clock"]
    /\ chosen' = "clock"
    /\ UNCHANGED <<environment, dirty, bright, frame, panel, loop>>

\* The loop takes mode and dirty under one lock, before it reads what to draw.
Take ==
    /\ At("top")
    /\ ApplyBrightness
    /\ Go([at |-> "show", mode |-> screen.mode, last |-> screen.mode,
           changed |-> dirty \/ BrightnessSet \/ screen.mode # loop.last])
    /\ dirty' = FALSE
    /\ UNCHANGED <<environment, screen, chosen, panel>>

\* A variant of CloseDiagnostics: the mode is not looked at again.
CloseDiagnostics_Always ==
    /\ screen' = [mode |-> screen.return, return |-> "clock", left |-> 0]
    /\ dirty' = TRUE

\* close_diagnostic_screen: nothing when another screen was asked for meanwhile.
CloseDiagnostics ==
    IF screen.mode = "diagnostics"
    THEN /\ screen' = [mode |-> screen.return, return |-> "clock", left |-> 0]
         /\ dirty' = TRUE
    ELSE UNCHANGED <<screen, dirty>>

Done(mode) == Go([at |-> "top", mode |-> "none", changed |-> FALSE, last |-> mode])

\* The diagnostics stay: they are drawn when something changed, and every two seconds.
ShowDiagnostics(refresh) ==
    /\ At("show") /\ loop.mode = "diagnostics" /\ screen.left > 0
    /\ IF refresh \/ loop.changed THEN Draw("diagnostics") ELSE KeepPanel
    /\ Done("diagnostics")
    /\ UNCHANGED <<environment, screen, chosen, dirty, bright>>

\* They have timed out: they are closed, and the mode is read again.
DiagnosticsTimeOut ==
    /\ At("show") /\ loop.mode = "diagnostics" /\ screen.left = 0
    /\ CloseDiagnostics
    /\ Go([loop EXCEPT !.at = "reread"])
    /\ UNCHANGED <<environment, chosen, bright, frame, panel>>

\* A variant of Paint: the flag is cleared when the picture is drawn.
Paint_ClearsDirty(mode, changed) ==
    /\ CASE mode = "clock" -> IF changed THEN Draw("clock") ELSE Write(frame.fb, FALSE)
         [] mode = "clear" /\ changed -> Draw("clear")
         [] OTHER -> KeepPanel
    /\ Done(mode)
    /\ dirty' = FALSE
    /\ posting' = IF changed /\ posting = "late" THEN "none" ELSE posting
    /\ UNCHANGED <<unowed, screen, chosen, bright>>

\* The clock: drawn anew when something changed and every minute, else flushed as it is for
\* the second that has passed.  The blank screen: drawn when something changed.
Paint(mode, changed) ==
    /\ CASE mode = "clock" -> IF changed THEN Draw("clock") ELSE Write(frame.fb, FALSE)
         [] mode = "clear" /\ changed -> Draw("clear")
         [] OTHER -> KeepPanel
    /\ Done(mode)
    /\ posting' = IF changed /\ posting = "late" THEN "none" ELSE posting
    /\ UNCHANGED <<unowed, screen, chosen, dirty, bright>>

ShowClock(minute) ==
    /\ At("show") /\ loop.mode = "clock"
    /\ Paint("clock", minute \/ loop.changed)

ShowClear ==
    /\ At("show") /\ loop.mode = "clear"
    /\ Paint("clear", loop.changed)

\* last_mode = -1; the diagnostics may have been opened again, the next pass draws them.
ShowAfterDiagnostics ==
    /\ At("reread")
    /\ Paint(screen.mode, TRUE)

Loop == Take \/ DiagnosticsTimeOut \/ ShowClear \/ ShowAfterDiagnostics
        \/ \E due \in BOOLEAN : ShowClock(due) \/ ShowDiagnostics(due)

----------------------------------------------------------------------------
(* The other threads.                                                       *)

unseen == <<bright, spi, frame, panel, loop>>

\* ipc_weather_update and room_sensor_thread_main change their own state, under their own
\* locks, and raise display_dirty afterwards.  (With what is known already they only raise it,
\* as AudioChanges does.)
Post(c) ==
    /\ posting # "flag" /\ c # content
    /\ content' = c /\ posting' = "flag"
    /\ UNCHANGED <<screen, chosen, dirty, wanted, unseen>>

RaiseDirty ==
    /\ posting = "flag"
    /\ posting' = "none" /\ dirty' = TRUE
    /\ UNCHANGED <<content, screen, chosen, wanted, unseen>>

\* ipc_asset_event, for a new font under the name of the selected one: display_dirty is raised
\* before the cached face is dropped, and the loop may draw with the old face in between, and
\* then owes no redraw of the new one.
WillDraw == \/ dirty \/ posting = "flag" \/ At("reread")
            \/ At("top") /\ screen.mode # loop.last
            \/ At("show") /\ loop.changed
ReplaceFont(c) ==
    /\ c # content /\ content' = c
    /\ \/ dirty' = TRUE /\ UNCHANGED posting
       \/ UNCHANGED dirty
          /\ posting' = IF frame.fb = Clock(content) /\ ~WillDraw THEN "late" ELSE posting
    /\ UNCHANGED <<screen, chosen, wanted, unseen>>

\* ipc_config_display: what the clock looks like, and the brightness of the bedtime.
ConfigDisplay(c, level) ==
    /\ (c = content) # (level = wanted)
    /\ content' = c /\ wanted' = level /\ dirty' = TRUE
    /\ UNCHANGED <<posting, spi, screen, chosen, unseen>>

\* ipc_display_action; a podcast that starts asks for the clock in the same way.
ShowMode(mode) ==
    /\ screen' = [screen EXCEPT !.mode = mode]
    /\ chosen' = mode /\ dirty' = TRUE
    /\ UNCHANGED <<environment, unseen>>

\* Audio starts or ends.
AudioChanges ==
    /\ dirty' = TRUE
    /\ UNCHANGED <<environment, screen, chosen, unseen>>

\* The bedtime begins or ends, or a preview expires.
BedtimeMoves(level) ==
    /\ level # wanted
    /\ wanted' = level
    /\ UNCHANGED <<content, posting, spi, screen, chosen, dirty, unseen>>

BusChanges ==
    /\ spi' = IF spi = "up" THEN "down" ELSE "up"
    /\ UNCHANGED <<content, posting, screen, chosen, dirty, wanted, bright, frame,
                   panel, loop>>

----------------------------------------------------------------------------
(* The finger: how long it stays, and what a press does to the audio, are   *)
(* left open.                                                               *)

\* open_diagnostic_screen, after a long press; it is refused while audio plays.
OpenDiagnostics ==
    /\ screen.mode # "diagnostics"
    /\ screen' = [mode |-> "diagnostics", return |-> screen.mode, left |-> DiagnosticFor]
    /\ dirty' = TRUE
    /\ UNCHANGED <<environment, chosen, bright, frame, panel, loop>>

\* A press that began over the diagnostics is over; they may have timed out under it.
TouchCloses ==
    /\ CloseDiagnostics
    /\ UNCHANGED <<environment, chosen, bright, frame, panel, loop>>

----------------------------------------------------------------------------
Tick ==
    /\ screen.left > 0
    /\ screen' = [screen EXCEPT !.left = @ - 1]
    /\ UNCHANGED <<environment, chosen, dirty, bright, frame, panel, loop>>

\* oled_init has cleared the panel, or has failed to.
Init ==
    /\ content \in Contents /\ posting = "none"
    /\ screen = [mode |-> "clock", return |-> "clock", left |-> 0] /\ chosen = "clock"
    /\ dirty = TRUE
    /\ wanted \in Levels /\ bright = Full
    /\ spi \in {"up", "down"}
    /\ panel = Shown(Clear, Full)
    /\ frame = [fb |-> Clear, valid |-> spi = "up", sent |-> Shown(Clear, Full)]
    /\ loop = [at |-> "top", mode |-> "none", changed |-> FALSE, last |-> "none"]

IPC == \/ \E c \in Contents, level \in Levels : ConfigDisplay(c, level)
       \/ \E mode \in {"clock", "clear"} : ShowMode(mode)
       \/ \E c \in Contents : Post(c) \/ ReplaceFont(c)
Others == \/ AudioChanges \/ BusChanges
          \/ \E level \in Levels : BedtimeMoves(level)

Next == Loop \/ FireAlarm \/ IPC \/ RaiseDirty \/ OpenDiagnostics \/ TouchCloses \/ Others \/ Tick

\* The threads run and time goes on; a finger, a client and the end of a song are not owed.
Spec == Init /\ [][Next]_vars
        /\ WF_vars(Loop) /\ WF_vars(RaiseDirty) /\ WF_vars(Tick)

----------------------------------------------------------------------------
(* Properties.                                                              *)

Modes == {"clock", "clear", "diagnostics"}
TypeOK ==
    /\ content \in Contents /\ dirty \in BOOLEAN
    /\ posting \in {"none", "flag", "late"}
    /\ screen \in [mode : Modes, return : Modes \ {"diagnostics"}, left : 0 .. DiagnosticFor]
    /\ chosen \in Modes \ {"diagnostics"}
    /\ wanted \in Levels /\ bright \in Levels /\ spi \in {"up", "down"}
    /\ frame \in [fb : Pictures, valid : BOOLEAN,
                  sent : [picture : Pictures, level : Levels]]
    /\ panel \in [picture : Pictures \union {Mixed}, level : Levels]
    /\ loop \in [at : {"top", "show", "reread"},
                 mode : Modes \union {"none"}, changed : BOOLEAN, last : Modes \union {"none"}]

\* The diagnostics come and go over the screen that was last asked for, by the owner, an
\* alarm or a podcast, and never replace it: not by their timing out in the main loop while
\* another thread asks for a screen or opens them again.
ChoiceKept == chosen = IF screen.mode = "diagnostics" THEN screen.return ELSE screen.mode

\* What /api/v1/display/preview serves is what the panel shows, whichever writes failed, as
\* long as none of them failed half way.
PreviewTrue == panel.picture = Mixed \/ panel = frame.sent

\* Well-typed; the screen asked for is never overridden by the diagnostics, and the preview
\* shows what the panel does (close_diagnostic_screen, oled_flush).
DisplayInv == TypeOK /\ ChoiceKept /\ PreviewTrue

\* No redraw is lost: when the loop begins a pass and owes none, and no thread is still about
\* to ask for one, the frame is that of the screen asked for and of what is known by now.
\* The flag is cleared before the state is read, and raised after it is written; only the
\* font cache is reset after it, and when that is late the font waits for the next redraw.
NoLostRedraw ==
    At("top") /\ ~dirty /\ posting \notin {"flag", "late"} /\ screen.mode = loop.last =>
        frame.fb = CASE screen.mode = "clock" -> Clock(content)
                     [] screen.mode = "clear" -> Clear
                     [] screen.mode = "diagnostics" -> Diagnostics

\* The diagnostics end without a touch.
DiagnosticsEnd == screen.mode = "diagnostics" ~> screen.mode # "diagnostics"

\* Once the bus works, and no write ever failed half way, the clock is on the panel with what
\* is known, at the brightness of the schedule when no preview is left, whatever failed before.
NeverMixed == panel.picture # Mixed
Stands(c, level) ==
    screen.mode = "clock" /\ content = c /\ posting = "none" /\ wanted = level /\ spi = "up"
PanelSettles ==
    []NeverMixed => \A c \in Contents, level \in Levels :
                        <>[]Stands(c, level) => <>[](panel = Shown(Clock(c), level))

\* The display comes to rest on what it should show: the diagnostics end, and the clock
\* ends up on a panel whose bus works (the main loop).
DisplayServed == DiagnosticsEnd /\ PanelSettles
=============================================================================
