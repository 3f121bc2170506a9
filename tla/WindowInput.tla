---------------------------- MODULE WindowInput ----------------------------
(***************************************************************************)
(* The window (window/Window.cpp) and its input state                       *)
(* (shared/frontend/WindowInputCallbacks.ixx): GLFW calls the callbacks      *)
(* while the frame loop polls or waits, and the loop consumes the mouse     *)
(* once a frame.  One key stands for all, the x axis for both axes.         *)
(***************************************************************************)
EXTENDS Integers

CONSTANTS
  Columns,          \* the cursor's positions
  MaxCursorEvents   \* bound on the cursor events of one frame

ASSUME WindowInputAssumption ==
  Columns \subseteq Int /\ Columns # {} /\ MaxCursorEvents \in Nat \ {0}

VARIABLES
  user,    \* what the user does: the right button, the key, focus, the cursor
  input,   \* Window::input_state
  wantsMouse,     \* ImGui's WantCaptureMouse
  wantsKeyboard,  \* ImGui's WantCaptureKeyboard
  cursorEvents,   \* cursor events since the last frame
  travel          \* how far the cursor was moved in look mode since then

inputVars == << user, input, wantsMouse, wantsKeyboard, cursorEvents, travel >>

WindowInputTypeOK ==
  /\ user \in [button : BOOLEAN, key : BOOLEAN, focused : BOOLEAN, x : Columns]
  /\ input \in [key : BOOLEAN, look_mode_active : BOOLEAN, mouse_first_moved : BOOLEAN,
                 last_x : Columns \cup {0}, x_change : Int]
  /\ wantsMouse \in BOOLEAN /\ wantsKeyboard \in BOOLEAN
  /\ cursorEvents \in 0 .. MaxCursorEvents
  /\ travel \in Nat

Span(a, b) == IF a < b THEN b - a ELSE a - b

InitialInput ==
  [key |-> FALSE, look_mode_active |-> FALSE, mouse_first_moved |-> TRUE,
   last_x |-> 0, x_change |-> 0]

WindowInputInit ==
  /\ user \in [button : {FALSE}, key : {FALSE}, focused : {TRUE}, x : Columns]
  /\ input = InitialInput
  /\ wantsMouse = FALSE /\ wantsKeyboard = FALSE
  /\ cursorEvents = 0 /\ travel = 0

-----------------------------------------------------------------------------
\* Faulty variant: the position is not tracked while ImGui has the mouse.
HandleMouseUntracked(state, x, captured) ==
  LET seeded == IF state.mouse_first_moved THEN x ELSE state.last_x
  IN IF captured THEN state
     ELSE IF ~state.look_mode_active THEN [state EXCEPT !.last_x = x]
     ELSE [state EXCEPT !.mouse_first_moved = FALSE,
                        !.x_change = @ + x - seeded,
                        !.last_x = x]

\* handle_mouse_callback()
HandleMouse(state, x, captured) ==
  LET seeded == IF state.mouse_first_moved THEN x ELSE state.last_x
  IN IF captured \/ ~state.look_mode_active THEN [state EXCEPT !.last_x = x]
     ELSE [state EXCEPT !.mouse_first_moved = FALSE,
                        !.x_change = @ + x - seeded,
                        !.last_x = x]

\* handle_mouse_button_callback() of the right button: should_capture_cursor()
\* and should_release_cursor().
HandleRightButton(state, pressed, captured) ==
  IF pressed /\ captured THEN state
  ELSE [state EXCEPT !.mouse_first_moved = TRUE, !.look_mode_active = pressed]

\* Faulty variant: ImGui's capture swallows a release as well.
HandleKeyCaptured(state, pressed, captured) ==
  IF captured THEN state ELSE [state EXCEPT !.key = pressed]

\* handle_key_callback()
HandleKey(state, pressed, captured) ==
  IF pressed /\ captured THEN state ELSE [state EXCEPT !.key = pressed]

\* handle_focus_lost()
HandleFocusLost(state) ==
  [state EXCEPT !.key = FALSE, !.mouse_first_moved = TRUE, !.look_mode_active = FALSE]

-----------------------------------------------------------------------------
\* The cursor moves; events keep arriving outside look mode.
MoveCursor ==
  /\ user.focused /\ cursorEvents < MaxCursorEvents
  /\ \E x \in Columns \ {user.x} :
       /\ user' = [user EXCEPT !.x = x]
       /\ input' = HandleMouse(input, x, wantsMouse)
       /\ travel' = IF input.look_mode_active /\ ~wantsMouse
                      THEN travel + Span(user.x, x) ELSE travel
  /\ cursorEvents' = cursorEvents + 1
  /\ UNCHANGED << wantsMouse, wantsKeyboard >>

\* Entering and leaving look mode switches GLFW's cursor mode, and with it the
\* position the next event reports: no movement of the user's.
PressOrReleaseRightButton ==
  /\ user.focused
  /\ input' = HandleRightButton(input, ~user.button, wantsMouse)
  /\ \E x \in IF input'.look_mode_active # input.look_mode_active THEN Columns ELSE {user.x} :
        user' = [user EXCEPT !.button = ~@, !.x = x]
  /\ UNCHANGED << wantsMouse, wantsKeyboard, cursorEvents, travel >>

PressOrReleaseKey ==
  /\ user.focused
  /\ user' = [user EXCEPT !.key = ~@]
  /\ input' = HandleKey(input, ~user.key, wantsKeyboard)
  /\ UNCHANGED << wantsMouse, wantsKeyboard, cursorEvents, travel >>

\* GLFW calls the focus callback and then reports a release of everything held.
LoseFocus ==
  /\ user.focused
  /\ user' = [user EXCEPT !.focused = FALSE, !.button = FALSE, !.key = FALSE]
  /\ input' = HandleRightButton(HandleFocusLost(input), FALSE, wantsMouse)
  /\ UNCHANGED << wantsMouse, wantsKeyboard, cursorEvents, travel >>

RegainFocus ==
  /\ ~user.focused
  /\ \E x \in Columns : user' = [user EXCEPT !.focused = TRUE, !.x = x]
  /\ UNCHANGED << input, wantsMouse, wantsKeyboard, cursorEvents, travel >>

UserActs ==
  \/ MoveCursor \/ PressOrReleaseRightButton \/ PressOrReleaseKey
  \/ LoseFocus \/ RegainFocus

\* process_camera_input(): get_x_change() turns the camera and is consumed.
ConsumeAxisDelta ==
  /\ input' = [input EXCEPT !.x_change = 0]
  /\ cursorEvents' = 0 /\ travel' = 0
  /\ UNCHANGED << user, wantsMouse, wantsKeyboard >>

\* GUI::render(): ImGui decides anew what it captures.
DecideCapture(mouse, keyboard) ==
  /\ wantsMouse' = mouse /\ wantsKeyboard' = keyboard

-----------------------------------------------------------------------------
(* Properties *)

\* The camera turns by no more than the user moved the mouse in look mode since
\* the last frame, whatever became of the cursor's position in between (a cursor
\* mode, a panel, another window), and a key is held for the camera only while
\* the user holds it down.
InputFollowsTheUser ==
  /\ Span(0, input.x_change) <= travel
  /\ input.key => user.key /\ user.focused

-----------------------------------------------------------------------------
(* The inductive invariant. *)

\* The property, and what it rests on: in look mode the last position is the
\* cursor's own as soon as one movement was seen, and look mode needs focus.
InputInv ==
  /\ InputFollowsTheUser
  /\ input.look_mode_active /\ ~input.mouse_first_moved => input.last_x = user.x
  /\ input.look_mode_active => user.focused
=============================================================================
