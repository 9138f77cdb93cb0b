--------------------------------- MODULE Log --------------------------------
(* The log server, rm_log/server/src/log.cc: it scrolls the screen by the    *)
(* height of a line and renders the message it was sent into the last one.   *)
(*                                                                           *)
(* The message arrives in the server's message registers: the kernel copies  *)
(* as many words as were sent, and the registers after them keep what they   *)
(* had.  The server takes the text for a string that ends at a NUL.  The     *)
(* graphics library (copying, filling, drawing) and the clients are external.*)
EXTENDS Naturals, SequencesExt

CONSTANTS Client,      \* the programs that write
          Char,        \* printable characters
          Control,     \* others, but NUL
          NUL, Space,
          Width,       \* characters the message registers hold
          Word,        \* characters in a word
          Height,      \* height of the screen, in pixels
          FontHeight,
          MaxWrites    \* bound: messages rendered

ASSUME LogAssumption ==
  /\ NUL \notin Char \cup Control \cup {Space} /\ Space \notin Char
  /\ Char \cap Control = {}
  /\ Word \in Nat \ {0} /\ Width \in Nat /\ Width % Word = 0
  /\ FontHeight \in Nat \ {0} /\ Height \in Nat /\ Height >= FontHeight
  /\ MaxWrites \in Nat

VARIABLES mr,        \* the message registers from mr[2] on
          fb,        \* what each line of pixels shows
          fg,        \* _fg_color is inverted
          sent,      \* history: the text of the last message
          shown,     \* history: the texts rendered
          result     \* what the clients have last been answered

vars == <<mr, fb, fg, sent, shown, result>>

Pixels == 0..(Height - 1)
Texts  == UNION {[1..n -> Char \cup Control] : n \in 0..Width}

(* A line of pixels: the text of which it is a part, which part, and colour. *)
Blank == [text |-> <<>>, row |-> 0, fg |-> FALSE]

TypeOK ==
  /\ mr \in [1..Width -> Char \cup Control \cup {NUL}]
  /\ fb \in [Pixels -> [text : Seq(Char \cup {Space}), row : 0..(FontHeight - 1),
                        fg : BOOLEAN]]
  /\ fg \in BOOLEAN /\ sent \in Texts
  /\ shown \in Seq(Seq(Char \cup {Space}))
  /\ result \in [Client -> {"none", "ok", "ebadproto"}]

-----------------------------------------------------------------------------
(* What the registers hold when n characters of text have been sent: whole   *)
(* words, the last one filled up with what the client had there.             *)
Words(n) == ((n + Word - 1) \div Word) * Word

Received(text, fill) ==
  [i \in 1..Width |-> IF i <= Len(text) THEN text[i]
                      ELSE IF i <= Words(Len(text)) THEN fill
                      ELSE mr[i]]

StringInLine(r) ==
  LET end == CHOOSE n \in 0..Width :
               /\ \A i \in 1..n : r[i] \notin Control \cup {NUL}
               /\ n = Width \/ r[n + 1] \in Control \cup {NUL}
  IN SubSeq(r, 1, end)

(* std::string str(mr[2]): up to the first NUL (or what lies behind the      *)
(* registers, taken for one).                                                *)
StringIn(r) ==
  LET end == CHOOSE n \in 0..Width :
               /\ \A i \in 1..n : r[i] # NUL
               /\ n = Width \/ r[n + 1] = NUL
  IN SubSeq(r, 1, end)

(* "replace special characters"                                              *)
PrintableAll(s) == s

Printable(s) == [i \in DOMAIN s |-> IF s[i] \in Char THEN s[i] ELSE Space]

-----------------------------------------------------------------------------
(* gfxbitmap_copy clips at the lower edge. *)
Scroll(f, d) == [y \in Pixels |-> IF y + d < Height THEN f[y + d] ELSE f[y]]

Fill(f, top) == [y \in Pixels |-> IF y >= top THEN Blank ELSE f[y]]

Draw(f, top, text, c) ==
  [y \in Pixels |-> IF y \in top..(top + FontHeight - 1)
                    THEN [text |-> text, row |-> y - top, fg |-> c] ELSE f[y]]

LastLine == Height - FontHeight

RenderedFirst(text) == Scroll(Draw(Fill(fb, LastLine), LastLine, text, fg), FontHeight)

Rendered(text) == Draw(Fill(Scroll(fb, FontHeight), LastLine), LastLine, text, fg)

(* dispatch() of L4_VCON_WRITE_OP: print_log().                              *)
Write(c) ==
  /\ Len(shown) < MaxWrites
  /\ \E text \in Texts, fill \in Char \cup {NUL} :
       /\ mr' = Received(text, fill)
       /\ sent' = text
  /\ LET str == Printable(StringIn(mr')) IN
     /\ fb' = Rendered(str)
     /\ shown' = Append(shown, str)
  /\ fg' = ~ fg
  /\ result' = [result EXCEPT ![c] = "ok"]

(* The server's own printf goes to its log through the same registers.       *)
Complain(c, answer) ==
  /\ \E text \in Texts : mr' = Received(text, NUL)
  /\ result' = [result EXCEPT ![c] = answer]
  /\ UNCHANGED <<fb, fg, sent, shown>>

(* dispatch() of a message that is not for a log, and of another operation.  *)
BadProtocol(c) == Complain(c, "ebadproto")
Unsupported(c) == Complain(c, "ok")

Init ==
  /\ mr = [i \in 1..Width |-> NUL]
  /\ fb = [y \in Pixels |-> Blank] /\ fg = FALSE
  /\ sent = <<>> /\ shown = <<>>
  /\ result = [c \in Client |-> "none"]

Next == \E c \in Client : Write(c) \/ BadProtocol(c) \/ Unsupported(c)

Spec == Init /\ [][Next]_vars

-----------------------------------------------------------------------------
(* The screen is the end of the history of what was rendered, from the lower *)
(* edge upwards: no line of pixels is lost, repeated or left behind by the   *)
(* scrolling, also where the screen is no whole number of lines high, and    *)
(* each text has the other colour than the one above it.                     *)
ScreenIsHistory ==
  \A y \in Pixels :
    LET up == Height - 1 - y
        n  == up \div FontHeight
    IN fb[y] = IF n >= Len(shown) THEN Blank
               ELSE [text |-> shown[Len(shown) - n],
                     row  |-> FontHeight - 1 - (up % FontHeight),
                     fg   |-> (Len(shown) - n) % 2 = 0]

(* Whatever the registers held before, a message is shown from its first     *)
(* character to its last, each control character as one space.               *)
ShowsAllOfMessage == shown # <<>> => IsPrefix(Printable(sent), Last(shown))
=============================================================================
