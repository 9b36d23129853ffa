------------------------------ MODULE FileBytes ------------------------------
\* What a write does to the bytes of a file.
EXTENDS Integers, Sequences

Longer(a, b) == IF a <= b THEN b ELSE a

\* What lies between the end of the old bytes and the offset is erased flash.
Overwrite(content, offset, bytes) ==
    [i \in 1 .. Longer(offset + Len(bytes), Len(content)) |->
        IF i > offset /\ i <= offset + Len(bytes) THEN bytes[i - offset]
        ELSE IF i <= Len(content) THEN content[i] ELSE 255]
==============================================================================
