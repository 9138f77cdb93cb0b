------------------------------ MODULE TabSwitch -----------------------------
(* The switch thread of the console server as a client of the keyboard       *)
(* server: what a TAB key that the user holds, or another key pressed at the *)
(* same time, does to the active console.                                    *)
EXTENDS Keyboard, SwitchLoop

CONSTANTS Console             \* the console server's switch thread

(* Other clients, if there are any, make no calls here.                      *)
ASSUME ConsoleAssumption == Console \in Client

VARIABLES words,   \* the codes in the thread's message registers
          taps     \* history: how often the user has pressed TAB

TabKey == 15
tabVars == <<vars, switchVars, words, taps>>

-----------------------------------------------------------------------------
(* stream.call(kbd.cap(), Protocol::Keycode)                                 *)
Poll == /\ sw.pc = "poll" /\ Goto("wait")
        /\ Call(Console, Keycode)
        /\ UNCHANGED <<active, toggles, words>>

(* A reply overwrites as many message registers as it has words; the stream  *)
(* library (external) yields 0 or the register's old content for a word that *)
(* the reply does not have.                                                  *)
Overlay(old, new) ==
  [i \in 1..(IF Len(old) > Len(new) THEN Len(old) ELSE Len(new)) |->
     IF i <= Len(new) THEN new[i] ELSE old[i]]

Word(reply, i) ==
  IF i <= Len(reply) THEN {reply[i]}
  ELSE {0} \cup (IF i <= Len(words) THEN {words[i]} ELSE {})

(* stream >> size, and then as many codes as size says.                      *)
ReadReply ==
  /\ ipc[Console].st = "replied"
  /\ LET msg == ipc[Console].msg IN
     /\ \E codes \in [1..msg.size -> Key] :
          /\ \A i \in 1..msg.size : codes[i] \in Word(msg.items, i)
          /\ Decode({codes[i] : i \in 1..msg.size})
     /\ words' = Overlay(words, msg.items)
  /\ Receive(Console)

SwitchThread ==
  \/ /\ Poll \/ ReadReply
     /\ UNCHANGED <<deviceVars, listVars, irq, srv, historyVars, taps>>
  \/ Toggle /\ UNCHANGED <<vars, words, taps>>

KeyboardServer == /\ IrqThread \/ ServerThread
                  /\ UNCHANGED <<switchVars, words, taps>>

User == /\ Device
        /\ taps' = IF TabKey \in held' \ held THEN taps + 1 ELSE taps
        /\ UNCHANGED <<switchVars, words>>

-----------------------------------------------------------------------------
(* Console 0 is active once it has been created, and the thread has the      *)
(* keyboard's capability; what it does when it cannot get it, or when a call *)
(* fails, is in Console.                                                     *)
TabInit == /\ Init
           /\ active = [id \in ConsoleId |-> id = 0]
           /\ sw = [pc |-> "poll", lastTab |-> FALSE] /\ toggles = 0
           /\ words = <<>> /\ taps = 0

TabNext == User \/ KeyboardServer \/ SwitchThread

TabSpec == TabInit /\ [][TabNext]_tabVars

(* Each thread is runnable when it has a step to make; the kernel schedules  *)
(* every runnable thread.                                                    *)
TabFairSpec == /\ TabSpec
               /\ WF_tabVars(IrqThread /\ UNCHANGED <<switchVars, words, taps>>)
               /\ WF_tabVars(ServerThread /\ UNCHANGED <<switchVars, words, taps>>)
               /\ WF_tabVars(SwitchThread)

-----------------------------------------------------------------------------
(* While TAB is the only key, the consoles are switched no more often than   *)
(* the user has pressed it, though TAB repeats while it is held, break codes *)
(* get lost, and size() and the items may be read from different lists.      *)
TogglesMatchTaps == toggles <= taps

(* "check if one Key is TAB" (consoleCtrl.cc:130): last_tab remembers that   *)
(* TAB is down, so that a TAB key the user still holds switches once.  With  *)
(* a second key it does not hold: a key pushed in front of TAB after size()  *)
(* takes TAB's place in the reply, and the next reply has TAB anew.          *)
HeldTabSwitchesOnce == TabKey \in held => toggles <= taps

(* A TAB key that stays down, and whose code the controller did not drop, is *)
(* noticed by the polling thread.                                            *)
TabNoticed ==
  (TabKey \in held) ~> \/ sw.lastTab
                       \/ TabKey \notin held \/ TabKey \in lost
=============================================================================
