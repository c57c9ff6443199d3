---------------------------- MODULE MCDataStream ---------------------------
\* Model-checking instance of DataStream: bytes of three bits, a file of nine
\* chunks whose bitmap crosses a byte and whose last chunk is short, and a
\* file of one short chunk.
EXTENDS DataStream, TLC

Sizes == 0 :> 33 @@ 1 :> 3
\* What the receiver may have: scattered chunks without the two at the byte
\* boundary, everything.
HaveBytes == {0 :> <<106, 0>> @@ 1 :> <<0>>, 0 :> <<255, 1>> @@ 1 :> <<1>>}
\* A bitmap of the wrong length, one with a padding bit set, one of a receiver
\* that has the chunks of the first byte, none.
AnswerBytes == {<<255>>, <<127, 3>>, <<255, 0>>, None}

Frm(h, payload) == [bytes |-> Encode(h), payload |-> payload]
Bytes(f, from, n) == [k \in 1..n |-> <<f, from + k - 1>>]
Good == Encode(Header("FileData", 0, 0, 3))
\* Frames of another build: a keepalive, one with a payload, other message
\* types, an unknown file, the halves of a chunk, a second half with another's
\* bytes and one that overruns, a first half of another chunk, one past the end,
\* an empty one, the other file once more, and headers with one byte changed:
\* the flags and a reserved one.
ForeignFrames ==
    {Frm(Header("Keepalive", 0, 0, 0), <<>>),
     Frm(Header("Keepalive", 0, 0, 1), <<>>),
     Frm(Header("Control", 0, 0, 0), <<>>),
     Frm(Header("FileData", 7, 0, 3), Bytes(0, 0, 3)),
     Frm(Header("FileData", 0, 0, 2), Bytes(0, 0, 2)),
     Frm(Header("FileData", 0, 2, 2), Bytes(0, 2, 2)),
     Frm(Header("FileData", 0, 2, 2), Bytes(0, 6, 2)),
     Frm(Header("FileData", 0, 2, 3), Bytes(0, 2, 3)),
     Frm(Header("FileData", 0, 4, 2), Bytes(0, 4, 2)),
     Frm(Header("FileData", 0, 33, 1), <<<<0, 33>>>>),
     Frm(Header("FileData", 0, 32, 0), <<>>),
     Frm(Header("FileData", 1, 0, 3), Bytes(1, 0, 3))}
    \cup {[bytes |-> [Good EXCEPT ![p] = (@ + 1) % Base], payload |-> Bytes(0, 0, 3)] : p \in {5, 29}}
=============================================================================
