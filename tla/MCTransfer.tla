---------------------------- MODULE MCTransfer -----------------------------
\* Model-checking instance of Transfer: a file of two chunks with a short
\* last one, and a file of one chunk, over two streams.
EXTENDS Transfer, TLC

Sizes == <<3, 2>>
Disk == [n \in {"a", "b", "c", "a.", "CON", "long"} |-> IF n = "a." THEN "a" ELSE n]

Path(parts) == [flaw |-> "none", parts |-> parts]
Entry(path, k) ==
    [id |-> k, path |-> path, size |-> Sizes[k], hashes |-> (Sizes[k] + 1) \div 2, rooted |-> TRUE]
Named(p, q) ==
    [version |-> 1, streams |-> 2, chunk_size |-> 2,
     files |-> <<Entry(p, 1), Entry(q, 2)>>]
Good == Named(Path(<<"a">>), Path(<<"c", "", ".", "b">>))
\* Offers: a good one, with redundant components; other versions and stream
\* counts; one too large for a frame; paths that collide, escape or name
\* nothing; a file below a file, before it and after it; entries that do not
\* match their sizes or hashes.
OfferSet ==
    {Good, [Good EXCEPT !.version = 2], [Good EXCEPT !.streams = 0],
     [Good EXCEPT !.streams = 4], [Good EXCEPT !.chunk_size = 3],
     [Good EXCEPT !.files[1].size = 7, !.files[1].hashes = 4],
     [Good EXCEPT !.chunk_size = 4, !.files[1].size = 9, !.files[1].hashes = 3],
     [Good EXCEPT !.files[2].hashes = 2], [Good EXCEPT !.files[2].rooted = FALSE]}
    \cup {Named(Path(<<"a">>), Path(p)) :
            p \in {<<"a">>, <<".", "a">>, <<"a.">>,
                   <<"..", "b">>, <<"b", "..", "a">>, <<"", "b">>, <<"">>, <<".">>,
                   <<"CON">>, <<"long">>, <<"a", "b">>}}
    \cup {Named(Path(<<"c", "b">>), Path(<<"c">>))}
    \cup {Named(Path(<<"a">>), [flaw |-> x, parts |-> <<"b">>]) : x \in Flaws}
=============================================================================
