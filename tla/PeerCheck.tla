------------------------------ MODULE PeerCheck -----------------------------
(***************************************************************************)
(* SSLClient::verify(fp, domain_name): is the peer's certificate the one   *)
(* with this fingerprint, written in hexadecimal, and does it bear this    *)
(* name?  (lib/SSLClient/src/ssl_client.cpp:384-524)                       *)
(*                                                                         *)
(* A fingerprint is a sequence of characters.  A name is the sequence of   *)
(* its labels, the dots left out; of a label only what the code looks at   *)
(* is kept: whether it is "*" or contains one, and whether it has          *)
(* upper-case letters.  The certificate is external, and there once the    *)
(* handshake is done.                                                      *)
(***************************************************************************)
EXTENDS SSLClient, SequencesExt

CONSTANTS
  FpBytes,       \* the bytes of a fingerprint: 32
  MaxFp,         \* bound: characters of the fingerprint given
  DomainNames,   \* the names a caller may ask for
  Peers          \* the certificates a peer may have

NoName == <<>>   \* a null pointer: only the fingerprint is asked for

\* A label is a record: its text in lower case and whether it is cased; a name
\* has labels, at least one.
Star == [text |-> "*", cased |-> FALSE]
HasWildcard(label) == label.text \in {"*", "a*"}
Labels == {l \in [text : STRING, cased : BOOLEAN] : l.text = "*" => l = Star}
Names == Seq(Labels) \ {<<>>}

\* Nobody asks for a domain with a wildcard in it; a certificate has a whole
\* fingerprint, and its names have labels.
ASSUME PeerCheckConstantsOK ==
  /\ FpBytes \in Nat \ {0} /\ MaxFp \in Nat
  /\ NoName \notin DomainNames
  /\ \A d \in DomainNames : d \in Names /\ \A i \in DOMAIN d : ~HasWildcard(d[i])
  /\ \A cert \in Peers : /\ cert.fingerprint \in [1 .. FpBytes -> Nat]
                          /\ Range(cert.san) \union Range(cert.cn) \subseteq Names

-----------------------------------------------------------------------------
(* verify_ssl_fingerprint() *)

\* Characters: a digit, a letter of either case with the same value, the
\* separators and anything else.
Chars == {"0", "a", "A", ":", "x"}
IsSeparator(c) == c = ":"
IsHex(c) == c \in {"0", "a", "A"}

\* parseHexNibble()
Nibble(c) == IF c = "0" THEN 0 ELSE 10

\* The bytes read so far, and where in fp the next one is looked for.
Started == [ok |-> TRUE, pos |-> 1, bytes |-> <<>>]
Refused == [ok |-> FALSE, pos |-> 1, bytes |-> <<>>]

SkipSeparators(fp, pos) ==
  Min({p \in pos .. Len(fp) + 1 : p > Len(fp) \/ ~IsSeparator(fp[p])})

\* Mutant: a separator is taken for granted.
ReadByteAndOne(fp, read) ==
  LET p == SkipSeparators(fp, read.pos) IN
  IF read.ok /\ p < Len(fp) /\ IsHex(fp[p]) /\ IsHex(fp[p + 1])
    THEN [ok |-> TRUE, pos |-> Min({p + 3, Len(fp) + 1}),
          bytes |-> Append(read.bytes, Nibble(fp[p + 1]) + 16 * Nibble(fp[p]))]
    ELSE Refused

\* One turn of the loop: two more characters follow, and are a byte; or fp
\* is too short or not hexadecimal.
ReadByte(fp, read) ==
  LET p == SkipSeparators(fp, read.pos) IN
  IF read.ok /\ p < Len(fp) /\ IsHex(fp[p]) /\ IsHex(fp[p + 1])
    THEN [ok |-> TRUE, pos |-> p + 2,
          bytes |-> Append(read.bytes, Nibble(fp[p + 1]) + 16 * Nibble(fp[p]))]
    ELSE Refused

\* fingerprint_local; what follows its last byte is not looked at.
Reading(fp) ==
  LET read[n \in 0 .. FpBytes] == IF n = 0 THEN Started ELSE ReadByte(fp, read[n - 1])
  IN read
FingerprintLocal(fp) == Reading(fp)[FpBytes]

-----------------------------------------------------------------------------
(* verify_ssl_dn() *)

ToLower(name) == [i \in DOMAIN name |-> [text |-> name[i].text, cased |-> FALSE]]

\* Mutant: a wildcard beside other characters of its label.
MatchPartly(name, d) ==
  \/ name = d
  \/ /\ HasWildcard(name[1]) /\ Len(name) > 1 /\ Len(d) > 1
     /\ Tail(name) = Tail(d)

\* matchName(): the same, or a first label "*" for the first label of d.
MatchName(name, d) ==
  \/ /\ \A i \in DOMAIN name : ~HasWildcard(name[i])
     /\ name = d
  \/ /\ name[1] = Star /\ Len(name) > 1 /\ Len(d) > 1
     /\ Tail(name) = Tail(d)

\* The alternative names in lower case, the common names as they are.
HasName(cert, d) ==
  \/ \E name \in Range(cert.san) : MatchName(ToLower(name), ToLower(d))
  \/ \E name \in Range(cert.cn) : MatchName(name, ToLower(d))

\* mbedtls_ssl_get_peer_cert() gives a certificate.
HasPeerCert == context = "established"

\* What verify() returns then.
Accepts(fp, d, cert) ==
  /\ FingerprintLocal(fp).ok /\ FingerprintLocal(fp).bytes = cert.fingerprint
  /\ d # NoName => HasName(cert, d)

-----------------------------------------------------------------------------
(* Properties *)

Strings == UNION {[1 .. n -> Chars] : n \in 0 .. MaxFp}

\* What the hexadecimal digits mean, and so two of them, the high one first.
HexDigits == {<<"0", 0>>, <<"a", 10>>, <<"A", 10>>}
Writes(c1, c2, byte) ==
  \E high, low \in HexDigits :
    high[1] = c1 /\ low[1] = c2 /\ byte = 16 * high[2] + low[2]

\* What it means that a string begins with a writing of these bytes: two digits
\* for each, nothing but separators before and between them, anything after
\* the last.
BeginsWithWriting(f, bytes) ==
  \E start \in [1 .. FpBytes -> 1 .. Len(f) - 1] :
    LET from(i) == IF i = 1 THEN 1 ELSE start[i - 1] + 2
    IN \A i \in 1 .. FpBytes :
         /\ start[i] >= from(i)
         /\ \A k \in from(i) .. start[i] - 1 : f[k] = ":"
         /\ Writes(f[start[i]], f[start[i] + 1], bytes[i])

\* What it means that a name stands for a domain (RFC 6125, which the code
\* cites): label by label the same text in any case, or "*" for the first of
\* several.
StandsFor(name, d) ==
  /\ Len(name) = Len(d)
  /\ \A i \in DOMAIN d :
       \/ name[i].text = d[i].text
       \/ i = 1 /\ name[i] = Star /\ Len(d) > 1

FingerprintIsRead(fp, bytes) ==
  Accepts(fp, NoName, [fingerprint |-> bytes, san |-> <<>>, cn |-> <<>>])
    <=> BeginsWithWriting(fp, bytes)

NameIsFound(d, cert) ==
  HasName(cert, d) <=>
    \E name \in Range(cert.san) \union {n \in Range(cert.cn) : n = ToLower(n)} :
      StandsFor(name, d)

\* Of the peer of an established session: a string is taken for its fingerprint
\* exactly if it begins with a writing of it, in either case, with separators or
\* without.  One that is too short, cut inside a byte, or has anything else before
\* the last byte is refused; what follows the last byte is not looked at.
AllAreRead ==
  \A fp \in Strings, bytes \in {cert.fingerprint : cert \in Peers} : FingerprintIsRead(fp, bytes)
FingerprintsRead == HasPeerCert => AllAreRead

\* Of the same: its certificate is taken for one with the domain exactly when
\* one of its alternative names stands for it, or a common name that has no
\* upper-case letters: those, unlike all else, are not put into lower case.
AllAreFound == \A d \in DomainNames, cert \in Peers : NameIsFound(d, cert)
NamesMatch == HasPeerCert => AllAreFound
=============================================================================
