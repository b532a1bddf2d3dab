------------------------------ MODULE ViewerInput ------------------------------
(***************************************************************************)
(* The viewer's window as the user works with it: focus, keys, buttons and *)
(* IME compositions that WindowProc forwards to the page, the URL bar that *)
(* follows the page unless it is being edited, and the connection that     *)
(* breaks and comes back in between.  The window thread, the pipe, the     *)
(* producer's UI thread and the page are one chain in each direction:      *)
(* toPage holds what the reader thread reads and posts, toWindow what the  *)
(* client thread reads and posts.                                          *)
(*                                                                         *)
(* Mouse motion, wheel and text press nothing and are left out, and so is  *)
(* the route of the USB agents: InputRoute has the viewer's input and that *)
(* route compete.  SetCapture makes the window hear a release anywhere,    *)
(* and PagePoint then refuses it outside the page, so the capture changes  *)
(* nothing the page sees and is not modelled.  A window that uses a pipe   *)
(* whose handshake is under way is the StrayRequest of ServerScaling.      *)
(***************************************************************************)
EXTENDS Integers, Sequences, FiniteSetsExt

CONSTANTS
  Keys,          \* keys of the user's keyboard
  Buttons,       \* buttons of the user's mouse
  Compositions,  \* the IME's compositions
  MaxPending     \* bound: messages under way when the next one is caused

ASSUME ViewerInputAssumption ==
  /\ Keys \intersect Buttons = {} /\ (Keys \union Buttons) \intersect Compositions = {}
  /\ MaxPending \in Nat \ {0}

Controls == Keys \union Buttons \union Compositions

VARIABLES
  link,         \* the session runs at both ends of the pipe
  connected,    \* WindowState::connected
  focus,        \* where the keyboard focus is: on the window, its toolbar or elsewhere
  editing,      \* url_editing
  barCurrent,   \* the URL bar shows the page's address
  visible,      \* the window is shown
  wanted,       \* viewer_visible_
  held,         \* environment: the controls the user holds
  toPage,       \* what the viewer sent and the UI thread has not handled
  toWindow,     \* what the producer sent and the window has not handled
  pressed,      \* the controls the page sees pressed
  pageFocused,  \* the page has the focus
  told,         \* history: the last change of focus was sent
  missed,       \* history: controls the page was not told of being let go
  unanswered    \* history: Go's command was handled, and no navigation state sent since

window == <<connected, focus, editing>>
shown == <<visible, wanted>>
page == <<pressed, pageFocused>>
vars == <<link, window, barCurrent, shown, held, toPage, toWindow, page, unanswered, told, missed>>

Msg(type) == [type |-> type]
Press(c) == [type |-> "Press", control |-> c]
Lift(c) == [type |-> "Lift", control |-> c]
Focus(b) == [type |-> "Focus", on |-> b]
ToPage == {Msg("Ready"), Msg("Gone"), Msg("Navigate"), Msg("Command")}
            \union {Press(c) : c \in Controls} \union {Lift(c) : c \in Controls}
            \union {Focus(b) : b \in BOOLEAN}
Visibility(b) == [type |-> "Visibility", on |-> b]
ToWindow == {Msg("Connected"), Msg("Disconnected"), Msg("Navigation")}
              \union {Visibility(b) : b \in BOOLEAN}

Init ==
  /\ link = FALSE /\ connected = FALSE
  /\ focus \in {"window", "toolbar", "away"} /\ editing = FALSE
  /\ barCurrent = FALSE /\ visible = TRUE /\ wanted \in BOOLEAN
  /\ held = {} /\ toPage = <<>> /\ toWindow = <<>>
  /\ pressed = {} /\ pageFocused = FALSE
  /\ told = FALSE /\ missed = {} /\ unanswered = FALSE

-----------------------------------------------------------------------------
(***************************************************************************)
(* The connection.                                                         *)
(***************************************************************************)

\* A handshake succeeded: OnViewerReady and the status callback are posted.
Connect ==
  /\ ~link /\ Len(toPage) < MaxPending /\ Len(toWindow) < MaxPending
  /\ link' = TRUE
  /\ toPage' = Append(toPage, Msg("Ready"))
  /\ toWindow' = Append(toWindow, Msg("Connected"))
  /\ UNCHANGED <<window, shown, barCurrent, held, page, unanswered, told, missed>>

\* The pipe breaks under what is being sent, and both ends see it: a suffix
\* of what this session sent is lost, then the end of the session is posted.
Surviving(queue, opening) ==
  LET opened == Max({0} \union {i \in DOMAIN queue : queue[i] = opening})
  IN {SubSeq(queue, 1, n) : n \in opened .. Len(queue)}
LostLifts(kept) ==
  {c \in Controls : \E i \in Len(kept) + 1 .. Len(toPage) : toPage[i] = Lift(c)}
LinkBreaks ==
  /\ link
  /\ link' = FALSE
  /\ \E kept \in Surviving(toPage, Msg("Ready")) :
       /\ toPage' = Append(kept, Msg("Gone"))
       /\ missed' = missed \union LostLifts(kept)
  /\ \E kept \in Surviving(toWindow, Msg("Connected")) :
       toWindow' = Append(kept, Msg("Disconnected"))
  /\ told' = FALSE /\ unanswered' = FALSE
  /\ UNCHANGED <<window, shown, barCurrent, held, page>>

-----------------------------------------------------------------------------
(***************************************************************************)
(* The user, and what WindowProc makes of it.                              *)
(***************************************************************************)

UserMayAct == Len(toPage) < MaxPending /\ Len(toWindow) < MaxPending

\* What StreamClient::Send puts on the pipe; without one it fails.
Sent(messages) == IF link THEN toPage \o messages ELSE toPage
\* What the window forwards, which it does only while it is connected.
Forwarded(messages) == IF connected THEN Sent(messages) ELSE toPage

\* WM_SETFOCUS and WM_KILLFOCUS, if the window gains or loses the focus.
FocusNews(to) ==
  IF (to = "window") = (focus = "window") THEN <<>> ELSE <<Focus(to = "window")>>
FocusMoves(to) ==
  /\ focus' = to
  /\ told' = IF FocusNews(to) = <<>> THEN told ELSE connected /\ link

ChangeFocus(to) ==
  /\ UserMayAct /\ to # focus /\ (visible \/ to = "away")
  /\ FocusMoves(to)
  /\ toPage' = Forwarded(FocusNews(to))
  /\ UNCHANGED <<link, connected, editing, shown, barCurrent, held, toWindow, page, unanswered, missed>>

\* Which messages of a key reach the window as WM_KEYDOWN and WM_KEYUP: with
\* Alt held they are system messages.  F11 and, in the pixel mode, Ctrl and
\* an arrow are consumed when they go down.
KeyReaches(alt) == focus = "window" /\ ~alt
Fault_ForwardsKey(isDown, alt, shortcut) == KeyReaches(alt) /\ ~shortcut
ForwardsKey(isDown, alt, shortcut) == KeyReaches(alt) /\ ~(isDown /\ shortcut)

PressKey(k, alt, shortcut) ==
  /\ UserMayAct /\ k \notin held
  /\ held' = held \union {k}
  /\ toPage' = IF ForwardsKey(TRUE, alt, shortcut) THEN Forwarded(<<Press(k)>>) ELSE toPage
  /\ missed' = missed \ {k}
  /\ UNCHANGED <<link, window, shown, barCurrent, toWindow, page, unanswered, told>>
LiftKey(k, alt, shortcut) ==
  /\ UserMayAct /\ k \in held
  /\ held' = held \ {k}
  /\ toPage' = IF ForwardsKey(FALSE, alt, shortcut) THEN Forwarded(<<Lift(k)>>) ELSE toPage
  /\ missed' = IF KeyReaches(alt) /\ connected /\ link THEN missed ELSE missed \union {k}
  /\ UNCHANGED <<link, window, shown, barCurrent, toWindow, page, unanswered, told>>

\* A button, with the pointer on the page, on a part of the window that the
\* page does not cover, on the toolbar or outside.  SendMouse forwards what
\* PagePoint places in the page.
Places == {"page", "blank", "toolbar", "outside"}
Reachable == IF visible THEN Places ELSE {"outside"}
OnPage(place) == place = "page"

\* Where a press leaves the focus: the left button moves it, another one only
\* activates the window.
Kept == IF focus = "away" THEN "window" ELSE focus
Fault_FocusAfter(place) == IF OnPage(place) THEN {"window"} ELSE {place}
FocusAfter(place) ==
  IF place = "outside" THEN {"away"}
  ELSE {IF place = "toolbar" THEN "toolbar" ELSE "window", Kept}
PressButton(b, place) ==
  /\ UserMayAct /\ b \notin held /\ place \in Reachable
  /\ held' = held \union {b}
  /\ \E to \in FocusAfter(place) :
       /\ FocusMoves(to)
       /\ toPage' = Forwarded(FocusNews(to) \o (IF OnPage(place) THEN <<Press(b)>> ELSE <<>>))
  /\ missed' = missed \ {b}
  /\ UNCHANGED <<link, connected, editing, shown, barCurrent, toWindow, page, unanswered>>
LiftButton(b, place) ==
  /\ UserMayAct /\ b \in held /\ place \in Reachable
  /\ held' = held \ {b}
  /\ toPage' = IF OnPage(place) THEN Forwarded(<<Lift(b)>>) ELSE toPage
  /\ missed' = IF OnPage(place) /\ connected /\ link THEN missed ELSE missed \union {b}
  /\ UNCHANGED <<link, window, shown, barCurrent, toWindow, page, unanswered, told>>

\* WM_IME_COMPOSITION and WM_IME_ENDCOMPOSITION.
Compose(i) ==
  /\ UserMayAct /\ focus = "window" /\ i \notin held
  /\ held' = held \union {i}
  /\ toPage' = Forwarded(<<Press(i)>>)
  /\ missed' = missed \ {i}
  /\ UNCHANGED <<link, window, shown, barCurrent, toWindow, page, unanswered, told>>
EndComposition(i) ==
  /\ UserMayAct /\ i \in held
  /\ held' = held \ {i}
  /\ toPage' = Forwarded(<<Lift(i)>>)
  /\ missed' = IF connected /\ link THEN missed ELSE missed \union {i}
  /\ UNCHANGED <<link, window, shown, barCurrent, toWindow, page, unanswered, told>>

\* EN_CHANGE in the URL bar.
EditUrl ==
  /\ focus = "toolbar" /\ ~editing
  /\ editing' = TRUE
  /\ barCurrent' = FALSE
  /\ UNCHANGED <<link, connected, focus, shown, held, toPage, toWindow, page, unanswered, told, missed>>

\* The Go button: NavigateFromEdit, which does nothing with an empty bar.  The
\* bar keeps the text, whether the command could be sent or not.
Go ==
  /\ UserMayAct /\ focus = "toolbar"
  /\ editing' = FALSE
  /\ FocusMoves("window")
  /\ toPage' = IF connected THEN Sent(<<Msg("Navigate")>> \o FocusNews("window"))
                            ELSE Sent(<<Msg("Navigate")>>)
  /\ UNCHANGED <<link, connected, barCurrent, shown, held, toWindow, page, unanswered, missed>>

\* The other buttons: Back, Forward, Reload and Stop.
ClickCommand ==
  /\ UserMayAct /\ focus = "toolbar"
  /\ toPage' = Sent(<<Msg("Command")>>)
  /\ UNCHANGED <<link, window, shown, barCurrent, held, toWindow, page, unanswered, told, missed>>

-----------------------------------------------------------------------------
(***************************************************************************)
(* The window's posted messages.                                           *)
(***************************************************************************)

WindowGets(type) ==
  /\ toWindow # <<>> /\ Head(toWindow).type = type
  /\ toWindow' = Tail(toWindow)
  /\ UNCHANGED <<link, editing, wanted, held, page, unanswered, missed>>

\* The page named on the command line, asked for at the first connection, is
\* one more navigation of the page.
HandleConnected ==
  /\ WindowGets("Connected")
  /\ connected' = TRUE
  /\ UNCHANGED <<focus, barCurrent, visible, toPage, told>>
HandleDisconnected ==
  /\ WindowGets("Disconnected")
  /\ connected' = FALSE
  /\ UNCHANGED <<focus, barCurrent, visible, toPage, told>>

\* A navigation state describes the page's address as it was sent: with
\* another behind it, it is taken for out of date.
HandleNavigation ==
  /\ WindowGets("Navigation")
  /\ barCurrent' =
       IF editing THEN barCurrent
       ELSE \A i \in DOMAIN toWindow' : toWindow'[i].type # "Navigation"
  /\ UNCHANGED <<connected, focus, visible, toPage, told>>

\* ShowWindow; a window that is hidden loses the focus.
HandleVisibility ==
  /\ WindowGets("Visibility")
  /\ visible' = Head(toWindow).on
  /\ FocusMoves(IF visible' THEN focus ELSE "away")
  /\ toPage' = Forwarded(FocusNews(focus'))
  /\ UNCHANGED <<connected, barCurrent>>

-----------------------------------------------------------------------------
(***************************************************************************)
(* The producer's UI thread.                                               *)
(***************************************************************************)

\* What the server queues, and refuses without a session.
Posted(messages) == IF link THEN toWindow \o messages ELSE toWindow
PublishNavigationState ==
  /\ toWindow' = Posted(<<Msg("Navigation")>>)
  /\ unanswered' = FALSE

\* The browser's callbacks, for a load the viewer asked for or one of the
\* page's own.  OnLoadingStateChange reports that it began or ended, and
\* only OnAddressChange changes the address.
OnLoadingStateChange ==
  /\ Len(toWindow) < MaxPending
  /\ PublishNavigationState
  /\ UNCHANGED <<link, window, shown, barCurrent, held, toPage, page, told, missed>>
OnAddressChange ==
  /\ Len(toWindow) < MaxPending
  /\ barCurrent' = FALSE
  /\ PublishNavigationState
  /\ UNCHANGED <<link, window, shown, held, toPage, page, told, missed>>

\* The launcher's button: SetViewerVisible.
SetViewerVisible ==
  /\ Len(toWindow) < MaxPending
  /\ wanted' = ~wanted
  /\ toWindow' = Posted(<<Visibility(wanted')>>)
  /\ UNCHANGED <<link, window, barCurrent, visible, held, toPage, page, unanswered, told, missed>>

PageGets(type) ==
  /\ toPage # <<>> /\ Head(toPage).type = type
  /\ toPage' = Tail(toPage)
  /\ UNCHANGED <<link, window, shown, barCurrent, held, told, missed>>

Fault_OnViewerReady ==
  /\ PageGets("Ready")
  /\ toWindow' = Posted(<<Visibility(wanted)>>)
  /\ UNCHANGED <<page, unanswered>>
OnViewerReady ==
  /\ PageGets("Ready")
  /\ toWindow' = Posted(<<Visibility(wanted), Msg("Navigation")>>)
  /\ unanswered' = FALSE
  /\ UNCHANGED page
OnViewerDisconnected ==
  /\ PageGets("Gone")
  /\ pageFocused' = FALSE
  /\ pressed' = pressed \ Compositions
  /\ UNCHANGED <<toWindow, unanswered>>

\* LoadURL, GoBack and the like.  Nothing is published here: a load that the
\* browser starts it reports later, and it may not start one.
OnViewerCommand(type) ==
  /\ PageGets(type)
  /\ unanswered' = (unanswered \/ (type = "Navigate" /\ link))
  /\ UNCHANGED <<toWindow, page>>

\* OnViewerInput with DispatchInput, and OnViewerIme.
DispatchPress ==
  /\ PageGets("Press")
  /\ pressed' = pressed \union {Head(toPage).control}
  /\ UNCHANGED <<toWindow, pageFocused, unanswered>>
DispatchLift ==
  /\ PageGets("Lift")
  /\ pressed' = pressed \ {Head(toPage).control}
  /\ UNCHANGED <<toWindow, pageFocused, unanswered>>
DispatchFocus ==
  /\ PageGets("Focus")
  /\ pageFocused' = Head(toPage).on
  /\ UNCHANGED <<toWindow, pressed, unanswered>>

-----------------------------------------------------------------------------
User ==
  \/ \E to \in {"window", "toolbar", "away"} : ChangeFocus(to)
  \/ \E k \in Keys, alt, shortcut \in BOOLEAN :
       PressKey(k, alt, shortcut) \/ LiftKey(k, alt, shortcut)
  \/ \E b \in Buttons, place \in Places : PressButton(b, place) \/ LiftButton(b, place)
  \/ \E i \in Compositions : Compose(i) \/ EndComposition(i)
  \/ EditUrl \/ Go \/ ClickCommand
WindowStep == HandleConnected \/ HandleDisconnected \/ HandleNavigation \/ HandleVisibility
UIStep ==
  \/ OnViewerReady \/ OnViewerDisconnected
  \/ \E type \in {"Navigate", "Command"} : OnViewerCommand(type)
  \/ DispatchPress \/ DispatchLift \/ DispatchFocus

Next ==
  \/ Connect \/ LinkBreaks \/ User \/ WindowStep
  \/ OnLoadingStateChange \/ OnAddressChange \/ SetViewerVisible \/ UIStep

Spec == Init /\ [][Next]_vars

-----------------------------------------------------------------------------
(***************************************************************************)
(* Properties.                                                             *)
(***************************************************************************)

TypeOK ==
  /\ link \in BOOLEAN /\ connected \in BOOLEAN
  /\ focus \in {"window", "toolbar", "away"} /\ editing \in BOOLEAN
  /\ barCurrent \in BOOLEAN /\ visible \in BOOLEAN /\ wanted \in BOOLEAN
  /\ toPage \in Seq(ToPage) /\ toWindow \in Seq(ToWindow)
  /\ held \subseteq Controls /\ pressed \subseteq Controls /\ missed \subseteq Controls
  /\ pageFocused \in BOOLEAN /\ told \in BOOLEAN /\ unanswered \in BOOLEAN

Drained == toPage = <<>> /\ toWindow = <<>>

\* A control the user has let go does not stay pressed in the page, whatever
\* happened to focus and connection in between, unless its release never
\* came to the window (Alt or another window had the keyboard, the pointer
\* was off the page), was made while there was no connection, or was lost
\* with one.
OnlyHeldIsPressed == Drained => pressed \subseteq held \union missed

\* Window and page agree.  The page has the focus when the window does,
\* provided the last change could be sent: a focus the window already had
\* when the connection came up is never sent.  And the URL bar shows the
\* page's address, also when a command of Go or the news of a navigation was
\* lost with a connection, unless the user is editing it or the last Go has
\* no answer: the bar keeps what was typed until the browser reports a load,
\* and when Go started none, until something else makes the producer publish
\* its state.  And the window is shown if and only if the launcher wants it.
WindowAgreesWithPage ==
  Drained /\ link =>
    /\ told => pageFocused = (focus = "window")
    /\ editing \/ barCurrent \/ unanswered
    /\ visible = wanted
=============================================================================
