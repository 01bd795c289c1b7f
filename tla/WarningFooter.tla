---------------------------- MODULE WarningFooter ----------------------------
(***************************************************************************)
(* The weather warnings in the footer of the dashboard.  The weather       *)
(* program turns the alerts of a forecast into a list of short messages    *)
(* (active_warning_descriptions), the core keeps the list it was last      *)
(* given (ipc_weather_update), and the main loop shows the messages in     *)
(* turn, each for a period of its own (dashboard_weather_warning_state).   *)
(*                                                                         *)
(* An alert is its heading, the text of its bulletin as the sequence of    *)
(* the pieces next_warning_detail_chunk cuts it into, and whether it is    *)
(* live, that is neither ended nor expired when the program runs.  The     *)
(* processes are the IPC thread, which replaces the list and raises        *)
(* display_dirty under another lock, the main loop with the three steps in *)
(* which it reads shared state, the audio player, and time.  A tick is     *)
(* longer than a pass of the main loop (a quarter of a second at most,     *)
(* where a message stays for twelve seconds at least), so a pass sees at   *)
(* most one, between any two of its steps.                                 *)
(***************************************************************************)
EXTENDS Naturals, Sequences, SequencesExt

CONSTANTS Texts,      \* the headings and pieces of the alerts
          Forecasts,  \* the sequences of alerts a forecast may hold
          Slots,      \* MP_WEATHER_WARNING_SLOTS
          Rounds,     \* WARNING_DETAIL_CHUNKS_PER_ALERT
          Period,     \* weather_warning_display_duration_ms of each text
          MaxPeriod,  \* the longest, for a text has no more than 255 characters
          Wide        \* the texts that scroll: dashboard_footer_text_is_marquee

NoText == "none"

ASSUME FooterAssumption ==
    /\ Slots \in Nat \ {0} /\ Rounds \in Nat /\ Wide \subseteq Texts
    /\ MaxPeriod \in Nat /\ Period \in [Texts -> 2 .. MaxPeriod]
    /\ Forecasts \subseteq Seq([title : Texts, text : Seq(Texts), live : BOOLEAN])
    /\ {NoText, "date", "audio"} \intersect Texts = {}

VARIABLES alerts,    \* history: the alerts the list was made from
          messages,  \* g_weather.warning_descriptions
          announcing, \* the IPC thread has replaced the list and not yet raised display_dirty
          display,   \* g_weather_warning_display, with the ticks since started_ms
          audio,     \* g_state.audio_playing
          mode,      \* g_state.display_mode: the clock, or a screen without a footer
          redraw,    \* g_state.display_dirty
          pass,      \* the locals of main, and where it is
          footer     \* what the panel shows in the footer

footerVars == <<alerts, messages, announcing, display, audio, mode, redraw, pass, footer>>

Screens == {"clock", "other"}

----------------------------------------------------------------------------
(* The list of messages.                                                    *)

\* The alerts that take part: the live ones, as many as there are slots.
Active(b) ==
    LET taken[i \in 0 .. Len(b)] ==
          IF i = 0 THEN <<>>
          ELSE IF b[i].live /\ Len(taken[i - 1]) < Slots THEN Append(taken[i - 1], b[i])
          ELSE taken[i - 1]
    IN  taken[Len(b)]

\* A variant that goes through the bulletins one after the other.
Offered_ByAlert(active, k) ==
    LET a == active[((k - 1) \div (Rounds + 1)) + 1]
        round == (k - 1) % (Rounds + 1)
    IN  IF round = 0 THEN a.title ELSE IF round <= Len(a.text) THEN a.text[round] ELSE NoText

\* The k-th text to be listed: every heading comes before the first piece of any
\* bulletin, and a round takes one piece of every alert that has one left.
Offered(active, k) ==
    LET n == Len(active)
        a == active[((k - 1) % n) + 1]
        round == (k - 1) \div n
    IN  IF k <= n THEN active[k].title
        ELSE IF round <= Len(a.text) THEN a.text[round] ELSE NoText

\* A variant that appends a text although it is there.
Listed_Twice(used, t) ==
    IF t = NoText \/ Len(used) = Slots THEN used ELSE Append(used, t)

\* A text goes to the next free slot unless it is there already.
Listed(used, t) ==
    IF t = NoText \/ Len(used) = Slots \/ t \in ToSet(used) THEN used ELSE Append(used, t)

\* The list after a heading and Rounds pieces of every alert have been offered.
Messages(b) ==
    LET active == Active(b)
        places == Len(active) * (Rounds + 1)
        list[k \in 0 .. places] ==
          IF k = 0 THEN <<>> ELSE Listed(list[k - 1], Offered(active, k))
    IN  list[places]

----------------------------------------------------------------------------
(* The rotation.                                                            *)

\* The text after the first one that equals the current one, or the first text.
NextText(current) ==
    IF messages = <<>> THEN NoText
    ELSE LET at == {i \in DOMAIN messages : messages[i] = current}
         IN IF at = {} THEN messages[1] ELSE messages[(Min(at) % Len(messages)) + 1]

\* A variant for which a list without the current text cuts its period short.
Elapsed_OrGone == display.text # NoText
                  /\ (display.elapsed >= Period[display.text] \/ display.text \notin ToSet(messages))

\* The current text has been shown for its period.
Elapsed == display.text # NoText /\ display.elapsed >= Period[display.text]

\* dashboard_weather_warning_state: an empty display takes the first message, an
\* elapsed one the next, and the screen must be drawn when that changes something.
Advanced ==
    IF display.text = NoText \/ Elapsed
    THEN LET next == NextText(display.text)
         IN [text |-> next, elapsed |-> 0,
             refresh |-> display.refresh \/ display.text # NoText \/ next # NoText]
    ELSE display

\* dashboard_footer_state: while something plays the warnings stand still.
FooterState == IF audio THEN display ELSE Advanced
FooterText(d) == IF audio THEN "audio" ELSE IF d.text = NoText THEN "date" ELSE d.text

----------------------------------------------------------------------------
(* The actions.                                                             *)

FooterInit ==
    /\ alerts = <<>> /\ messages = <<>> /\ announcing = FALSE
    /\ display = [text |-> NoText, elapsed |-> 0, refresh |-> FALSE]
    /\ audio = FALSE /\ mode = "clock" /\ redraw = TRUE
    /\ pass = [pc |-> "take", mode |-> "clock", full |-> FALSE, active |-> FALSE,
               last |-> NoText, ticked |-> FALSE]
    /\ footer = "date"

\* A forecast arrives: its messages replace the list under g_weather.lock.
ReceiveWarnings ==
    /\ ~announcing
    /\ \E b \in Forecasts : alerts' = b /\ messages' = Messages(b)
    /\ announcing' = TRUE
    /\ UNCHANGED <<display, audio, mode, redraw, pass, footer>>

\* The rest of ipc_weather_update, under g_state.lock.
AnnounceList ==
    /\ announcing
    /\ announcing' = FALSE /\ redraw' = TRUE
    /\ UNCHANGED <<alerts, messages, display, audio, mode, pass, footer>>

\* A session is shown, or its end.
SessionShown ==
    /\ audio' = ~audio /\ redraw' = TRUE
    /\ UNCHANGED <<alerts, messages, announcing, display, mode, pass, footer>>

\* The screen is cleared, the clock is shown again, the diagnostics come and go.
ChangeMode ==
    /\ mode' \in Screens /\ redraw' = TRUE
    /\ UNCHANGED <<alerts, messages, announcing, display, audio, pass, footer>>

FooterTick ==
    /\ display.text # NoText /\ display.elapsed < MaxPeriod /\ ~pass.ticked
    /\ display' = [display EXCEPT !.elapsed = @ + 1]
    /\ pass' = [pass EXCEPT !.ticked = TRUE]
    /\ UNCHANGED <<alerts, messages, announcing, audio, mode, redraw, footer>>

\* main takes the mode and the redraw flag.
TakeState ==
    /\ pass.pc = "take"
    /\ pass' = [pass EXCEPT !.pc = "footer", !.mode = mode, !.full = redraw]
    /\ redraw' = FALSE
    /\ UNCHANGED <<alerts, messages, announcing, display, audio, mode, footer>>

\* dashboard_footer_refresh_active decides whether the footer must be drawn and
\* takes the request to redraw; a new minute redraws everything anyway.
DecideFooter ==
    /\ pass.pc = "footer"
    /\ IF pass.mode = "clock"
       THEN \E minute, scrolling \in BOOLEAN :
              /\ scrolling => audio
              /\ pass' = [pass EXCEPT !.pc = "draw",
                            !.full = @ \/ pass.mode # pass.last \/ minute,
                            !.active = FooterState.refresh \/ scrolling
                                       \/ (~audio /\ FooterState.text \in Wide)]
              /\ display' = [FooterState EXCEPT !.refresh = FALSE]
       ELSE /\ pass' = [pass EXCEPT !.pc = "draw", !.full = @ \/ pass.mode # pass.last,
                                    !.active = FALSE]
            /\ UNCHANGED display
    /\ UNCHANGED <<alerts, messages, announcing, audio, mode, redraw, footer>>

\* The dashboard or its footer alone is drawn, from the state of that moment.
DrawFooter ==
    /\ pass.pc = "draw"
    /\ IF pass.mode = "clock" /\ (pass.full \/ pass.active)
       THEN display' = FooterState /\ footer' = FooterText(FooterState)
       ELSE /\ UNCHANGED display
            /\ footer' = IF pass.mode # "clock" /\ pass.full THEN NoText ELSE footer
    /\ pass' = [pass EXCEPT !.pc = "take", !.last = pass.mode, !.full = FALSE,
                            !.active = FALSE, !.ticked = FALSE]
    /\ UNCHANGED <<alerts, messages, announcing, audio, mode, redraw>>

MainLoop == TakeState \/ DecideFooter \/ DrawFooter
FooterNext == ReceiveWarnings \/ AnnounceList \/ SessionShown \/ ChangeMode \/ FooterTick \/ MainLoop

\* The two threads run and time passes; nothing is assumed of the forecasts, the
\* audio, the modes or of a new minute.
FooterSpec == FooterInit /\ [][FooterNext]_footerVars /\ WF_footerVars(MainLoop) /\ WF_footerVars(AnnounceList) /\ WF_footerVars(FooterTick)

----------------------------------------------------------------------------
(* Properties.                                                              *)

FooterTypes ==
    /\ alerts \in Forecasts \cup {<<>>} /\ messages \in Seq(Texts) /\ Len(messages) <= Slots
    /\ announcing \in BOOLEAN /\ audio \in BOOLEAN /\ redraw \in BOOLEAN /\ mode \in Screens
    /\ display \in [text : Texts \cup {NoText}, elapsed : 0 .. MaxPeriod, refresh : BOOLEAN]
    /\ pass \in [pc : {"take", "footer", "draw"}, mode : Screens, full : BOOLEAN,
                 active : BOOLEAN, last : Screens \cup {NoText}, ticked : BOOLEAN]
    /\ footer \in Texts \cup {NoText, "date", "audio"}

\* "Every active alert gets its heading first": no long statement hides another
\* alert, no message is listed twice, and none is of an alert that has ended.
HeadingsListed ==
    LET active == Active(alerts)
    IN /\ \A i \in DOMAIN active : active[i].title \in ToSet(messages)
       /\ IsInjective(messages)
       /\ \A t \in ToSet(messages) : \E i \in DOMAIN active :
              t = active[i].title \/ t \in ToSet(active[i].text)

\* A warning on the panel is the one whose period runs, at the end of every pass:
\* the second evaluation while drawing never gets ahead of the screen.
PanelAgrees == pass.pc = "take" /\ footer \in Texts => footer = display.text

\* Well-typed; the list has every heading once, and the panel shows the message whose
\* period runs (active_warning_descriptions, dashboard_weather_warning_state).
FooterInv == FooterTypes /\ HeadingsListed /\ PanelAgrees

\* "Never rotate or restart midway through a pass": whatever list, sound or screen
\* comes in between, a message gives way or starts again only after its period.
PeriodKept ==
    [][display.text # NoText
       /\ (display'.text # display.text \/ display'.elapsed < display.elapsed)
           => display.elapsed >= Period[display.text]]_footerVars

\* Once the list stays as it is and the clock is shown in silence, each of its
\* messages is on the panel again and again (weather_warning_next_text continues
\* behind the first text that equals the current one).
EachMessageShown ==
    <>[][FALSE]_messages /\ <>[](mode = "clock" /\ ~audio)
        => \A t \in Texts : <>[](t \notin ToSet(messages)) \/ []<>(footer = t)

\* When all warnings are withdrawn, the clock ends up with none in its footer.
WithdrawnLeave ==
    <>[](messages = <<>> /\ mode = "clock") => <>[](footer \notin Texts)

\* Every message of a list that stands is shown again and again, and none once the list
\* is empty (dashboard_footer_state).
MessagesServed == EachMessageShown /\ WithdrawnLeave
=============================================================================
