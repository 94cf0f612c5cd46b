-------------------------------- MODULE ClientIp --------------------------------
(* clientIp: the address a request is counted under.  A header is the list of its *)
(* entries, empty when it is absent; several headers of a name are joined.        *)
EXTENDS SequencesExt

CONSTANTS
    Addresses,
    Unknown,      \* "unknown"
    Blank,        \* an entry of spaces only
    MaxEntries    \* bound: entries of X-Forwarded-For that come with a request

ASSUME AddressesAssumption ==
    Blank \notin Addresses \cup {Unknown} /\ MaxEntries \in Nat

Given(entries) == {i \in DOMAIN entries : entries[i] # Blank}

\* Mutant: the first entry, which the visitor may have sent.
Forwarded_First(entries) == entries[Min(Given(entries))]

\* The last entry that is not blank.
Forwarded(entries) == entries[Max(Given(entries))]

ClientIp(request) ==
    IF request.realIp # Blank THEN request.realIp
    ELSE IF Given(request.forwardedFor) # {} THEN Forwarded(request.forwardedFor)
    ELSE IF request.socket # Blank THEN request.socket
    ELSE Unknown

\* What a visitor may send along before the proxy.
Sent ==
    [realIp : Addresses \cup {Blank},
     forwardedFor : SeqOf(Addresses \cup {Blank}, MaxEntries),
     socket : Addresses \cup {Blank}]

\* Apache appends the address to X-Forwarded-For and sets X-Real-IP, or leaves that
\* header out.
ThroughApache(request, address) ==
    {[realIp |-> r, forwardedFor |-> Append(request.forwardedFor, address),
      socket |-> request.socket] : r \in {address, Blank}}

-------------------------------------------------------------------------------

\* Behind Apache a request is counted under the address Apache saw, whatever
\* headers the visitor sends along; without a proxy and without headers under the
\* address of the socket (the comment at clientIp).
IsCountedUnderOwnAddress(request) ==
    /\ \A a \in Addresses : \A r \in ThroughApache(request, a) : ClientIp(r) = a
    /\ request.realIp = Blank /\ request.forwardedFor = <<>> =>
          ClientIp(request) = IF request.socket = Blank THEN Unknown ELSE request.socket
===============================================================================
