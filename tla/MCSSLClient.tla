----------------------------- MODULE MCSSLClient ----------------------------
(* For PeerCheck: fingerprints of two bytes, names of up to two labels, one *)
(* of each kind.                                                            *)
EXTENDS PeerCheck

Small(text) == [text |-> text, cased |-> FALSE]
Capital == [text |-> "a", cased |-> TRUE]
NamesOf(labels) == UNION {[1 .. n -> labels] : n \in 1 .. 2}

MCDomainNames == NamesOf({Small("a"), Small("b"), Capital})
Lists == {<<>>} \union {<<n>> : n \in NamesOf({Small("a"), Capital, Star, Small("a*")})}

\* The fingerprint of the certificate is 0a:aa; others differ from it as well
\* as it does from them.  One name of one kind counts, after another SAN or none.
Certificates(sans, cns) == [fingerprint : {<<10, 170>>}, san : sans, cn : cns]
MCPeers == Certificates(Lists, {<<>>}) \union Certificates({<<>>, <<<<Small("a*")>>>>}, Lists)
=============================================================================
