------------------------------ MODULE Transfer ------------------------------
(***************************************************************************)
(* What the upload of a firmware image promises, whatever is lost on the    *)
(* way: the camera holds a beginning of the image, the beginning only grows, *)
(* and the camera is told to install nothing but the whole image.           *)
(***************************************************************************)
EXTENDS Naturals, Sequences

CONSTANTS
  Clients,   \* who uploads, each an image of its own
  Size,      \* units of an image
  NoFile     \* nothing

VARIABLES
  content,   \* [Clients -> what the camera holds of the image]
  flashed    \* [Clients -> what was installed]

Image(c) == [n \in 1 .. Size |-> <<c, n>>]

Init == content = [c \in Clients |-> <<>>] /\ flashed = [c \in Clients |-> NoFile]

\* the next part of the image, of any length
Receive(c) ==
  /\ \E n \in Len(content[c]) + 1 .. Size :
       content' = [content EXCEPT ![c] = SubSeq(Image(c), 1, n)]
  /\ UNCHANGED flashed

\* a failed upload begins again from nothing
Restart(c) == content' = [content EXCEPT ![c] = <<>>] /\ UNCHANGED flashed

Install(c) ==
  /\ content[c] = Image(c)
  /\ flashed' = [flashed EXCEPT ![c] = content[c]]
  /\ UNCHANGED content

Next == \E c \in Clients : Receive(c) \/ Restart(c) \/ Install(c)

Spec == Init /\ [][Next]_<<content, flashed>>
=============================================================================
