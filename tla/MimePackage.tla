---------------------------- MODULE MimePackage ----------------------------
(***************************************************************************)
(* MIMEHandler (as4/utils/mime_handler.py): the request a message is sent  *)
(* in, and the two parts of it that parse picks out.  A package is a tree  *)
(* of MIME parts; header fields other than the content type and the        *)
(* Content-ID, transfer encodings and boundaries are left out.  Recursion  *)
(* over the tree is a function on Package, grounded by Nesting.            *)
(***************************************************************************)
EXTENDS Naturals, SequencesExt

CONSTANTS
    ContentId,  \* what the Content-ID of a part can name
    Unbracket,  \* str.strip("<>") on them
    NoContentId, \* no Content-ID header, or nothing left of it
    Package,    \* the MIME parts considered, with all the parts inside them
    Nesting     \* how deep a part is nested

ASSUME ContentIdAssumption ==
    /\ NoContentId \notin ContentId
    /\ Unbracket \in [ContentId -> ContentId \cup {NoContentId}]
    /\ \A id \in ContentId : Unbracket[id] # NoContentId => Unbracket[Unbracket[id]] = Unbracket[id]

\* No part is inside itself.
ASSUME PackageAssumption ==
    /\ Nesting \in [Package -> Nat]
    /\ \A p \in Package :
         /\ p.content_id \in ContentId \cup {NoContentId}
         /\ p.parts \in Seq(Package)
         /\ \A i \in DOMAIN p.parts : Nesting[p.parts[i]] < Nesting[p]

\* content: "soap" and "sealed" are what the sender put in, "foreign" is not.
Leaf(type, content, content_id) ==
    [type |-> type, content |-> content, content_id |-> content_id, parts |-> <<>>]

Multipart(type, parts) ==
    [type |-> type, content |-> "parts", content_id |-> NoContentId, parts |-> parts]

SoapPart == Leaf("application/soap+xml", "soap", NoContentId)

\* The header holds <part_cid>, whatever part_cid holds.
AttachmentPart(part_cid) == Leaf("application/octet-stream", "sealed", part_cid)

\* build_request_data under the headers of build_request_headers.
BuildRequestData(attachments) ==
    Multipart("multipart/related", <<SoapPart>> \o [i \in DOMAIN attachments |-> AttachmentPart(attachments[i])])

\* Mutant: the outermost package alone is searched.
GetTopPart(package, type) ==
    SelectSeq(IF package.type = "multipart/related" THEN package.parts ELSE <<package>>,
              LAMBDA part : part.type = type)

\* get_soap_part and get_encrypted_part, the part found or <<>>: only a
\* multipart/related is entered.
GetPart(package, type) ==
    LET find[p \in Package] ==
            LET hits == {i \in DOMAIN p.parts : find[p.parts[i]] # <<>>}
            IN  CASE p.type = type -> <<p>>
                  [] p.type = "multipart/related" /\ hits # {} -> find[p.parts[Min(hits)]]
                  [] OTHER -> <<>>
    IN  find[package]

\* get_content_id
GetContentId(part) ==
    IF part.content_id = NoContentId THEN NoContentId ELSE Unbracket[part.content_id]

\* MIMEHandler.parse and unpack_message return both parts or refuse.
Unpackable(package) ==
    LET payload == GetPart(package, "application/octet-stream")
    IN  /\ GetPart(package, "application/soap+xml") # <<>>
        /\ payload # <<>>
        /\ GetContentId(payload[1]) # NoContentId

-----------------------------------------------------------------------------
\* The parts of a package in document order, as a reader of RFC 2387 sees
\* them: what is inside a part of another kind is that part's affair.
PartsInOrder(package) ==
    LET walk[p \in Package] ==
            IF p.type = "multipart/related"
            THEN FlattenSeq([i \in DOMAIN p.parts |-> walk[p.parts[i]]])
            ELSE <<p>>
    IN  walk[package]
=============================================================================
