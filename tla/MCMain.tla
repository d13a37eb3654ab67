------------------------------- MODULE MCMain -------------------------------
(* An instance of Main for TLC: names of one or two characters over an     *)
(* alphabet of three letters, headers of up to three tokens and bodies of  *)
(* up to five.                                                             *)
EXTENDS Main

CONSTANTS c1, c2, c3

A == <<1, 3>>
B == <<0, 2>>

Base ==
  [status |-> 200, conflict |-> FALSE, headers |-> 1, framing |-> "length",
   body |-> Lines(<<A, B>>), len |-> 2, chunks |-> <<>>, trailers |-> 0,
   extra |-> <<>>, cut |-> 0, open |-> FALSE, list |-> <<A, B>>]

Eof == [Base EXCEPT !.framing = "eof"]

(* A chunk up to the place last, and the size it declares.                 *)
Part(last, size) == [last |-> last, size |-> size]

Chunked == [Base EXCEPT !.framing = "chunked", !.len = 0, !.body = Lines(<<A>>),
                        !.chunks = <<Part(1, 1)>>, !.list = <<A>>]

TwoChunks == [Chunked EXCEPT !.body = Lines(<<A, B>>), !.list = <<A, B>>,
                             !.chunks = <<Part(1, 1), Part(2, 1)>>]

MCResponses ==
  { Base,
    [Base EXCEPT !.status = 404],
    [Base EXCEPT !.conflict = TRUE],
    [Base EXCEPT !.headers = 2],
    [Base EXCEPT !.headers = 3],
    [Base EXCEPT !.cut = 1],
    [Base EXCEPT !.open = TRUE],
    [Base EXCEPT !.cut = 1, !.open = TRUE],
    [Base EXCEPT !.extra = Lines(<<A>>)],
    [Base EXCEPT !.headers = 0, !.extra = <<Tok("end")>>],
    [Base EXCEPT !.body = <<Comment>>, !.len = 1, !.list = <<>>],
    [Base EXCEPT !.len = 6],
    Eof,
    [Eof EXCEPT !.open = TRUE],
    [Eof EXCEPT !.open = TRUE, !.cut = 1],
    [Eof EXCEPT !.body = Lines(<<A, B>>) \o <<Comment, Comment, Comment>>, !.len = 5],
    [Eof EXCEPT !.body = Lines(<<A, B>>) \o <<Comment, Comment, Comment, Comment>>, !.len = 6],
    Chunked,
    [Chunked EXCEPT !.cut = 2],
    [Chunked EXCEPT !.open = TRUE],
    [Chunked EXCEPT !.trailers = 1],
    [Chunked EXCEPT !.body = <<>>, !.chunks = <<>>, !.trailers = 3, !.list = <<>>],
    TwoChunks,
    [TwoChunks EXCEPT !.chunks[2].size = Unparsable],
    [TwoChunks EXCEPT !.chunks[2].size = 2],
    [Chunked EXCEPT !.body = Lines(<<A, A, A, A, A, A>>), !.list = <<A, A, A, A, A, A>>,
                    !.chunks = <<Part(6, 6)>>],
    [Chunked EXCEPT !.chunks[1].size = 0],
    [Chunked EXCEPT !.chunks[1].size = 2],
    [Chunked EXCEPT !.chunks[1].size = Unparsable] }

MCBuiltin == << <<2, 3>> >>
MCCfDomains == << <<3>> >>
MCWorkers == << "w" >>
MCUpstreams == << Endpoint("faketls", "f"), Endpoint("plain", "p") >>
MCClients == {c1, c2, c3}
MCRequests == {NotGiven, 3}

=============================================================================
