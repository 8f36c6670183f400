-------------------------------- MODULE MCPush --------------------------------
(* Two names of one head, too long for the fan, the first of them in two       *)
(* folders; a name that is what the first is cut to; two pictures of eight     *)
(* columns, one turned on by five against the fan (no small seam within five   *)
(* frames), or both shown in turn.                                             *)
EXTENDS PushServer, TLC

LongX == [head |-> "eb_listening", tail |-> "x", index |-> NoIndex, len |-> 24, ext |-> TRUE]
LongY == [LongX EXCEPT !.tail = "y"]
Cut == [head |-> "eb_listening", tail |-> NoTail, index |-> 0, len |-> 17, ext |-> TRUE]
Idle == [head |-> "eb_idle_02", tail |-> NoTail, index |-> NoIndex, len |-> 10, ext |-> FALSE]
SomeNames == {LongX, LongY, Cut, Idle}
SomeSources == {<<1, LongX>>, <<2, LongX>>, <<1, LongY>>, <<1, Cut>>}
SomePacks == {<<<<1, LongX>>>>, <<<<1, LongX>>, <<1, LongY>>>>, <<<<1, LongX>>, <<2, LongX>>>>,
              <<<<1, LongX>>, <<1, Cut>>>>}
SomeAs == {{}, {Idle}, {LongY}}

Spokes == [c \in 0..7 |-> [led \in 0..1 |-> [ch \in 0..2 |-> ((c \div 2) + led * ch) % 2]]]
Dot == [c \in 0..7 |-> [led \in 0..1 |-> [ch \in 0..2 |-> IF c = 0 /\ led = 1 /\ ch = 0 THEN 1 ELSE 0]]]
SomeEncodings == {Locked(Spokes, -5), Plain(<<Spokes, Dot>>, 3)}
=============================================================================
