---------------------------- MODULE MCAuxiliary -----------------------------
(***************************************************************************)
(* Playlists for TLC: entries out of order and two of one number, a bare   *)
(* url, none, one too long, an https one.                                  *)
(***************************************************************************)
EXTENDS Auxiliary

Url(host) == [http |-> TRUE, host |-> host, port |-> -1, path |-> 1]
File(n, url) == [kind |-> "file", n |-> n, url |-> url]
Bare(url) == [kind |-> "bare", n |-> 1, url |-> url]

MCPlsBodies == {
  <<File(2, Url(9)), File(0, Url(1)), File(1, Url(9))>>,
  <<Bare(Url(2)), File(1, NoUrl)>>,
  <<File(1, [Url(1) EXCEPT !.http = FALSE]), Bare(Url(2))>>,
  <<>>
}
=============================================================================
