--------------------------- MODULE ErrorCatalogue ---------------------------
(***************************************************************************)
(* The receiptable errors (as4/errors.py, profiles/peppol/exceptions.py):  *)
(* their codes, where each class takes its detail from, and how an error   *)
(* is stored with a message and loaded again (core/serialisation.py).      *)
(***************************************************************************)
EXTENDS XmlModels

Code(error_code, short_description, severity, category) ==
    [error_code |-> error_code, short_description |-> short_description,
     severity |-> severity, category |-> category]

Codes ==
    [BaseFeatureNotSupportedException |-> Code("EBMS:0002", "FeatureNotSupported", "warning", "Content"),
     BaseValueInconsistentException |-> Code("EBMS:0003", "ValueInconsistent", "failure", "Content"),
     BaseProfileLevelException |-> Code("EBMS:0004", "Other", "failure", "Content"),
     BaseMimeInconsistencyException |-> Code("EBMS:0007", "MimeInconsistency", "failure", "Unpackaging"),
     BaseInvalidHeaderException |-> Code("EBMS:0009", "InvalidHeader", "failure", "Unpackaging"),
     BaseDecompressionFailureException |-> Code("EBMS:0303", "DecompressionFailure", "failure", "Communication"),
     BaseFailedAuthenticationException |-> Code("EBMS:0101", "FailedAuthentication", "failure", "Processing"),
     BaseEncryptedDataReferenceException |-> Code("EBMS:0102", "FailedDecryption", "failure", "Processing"),
     BasePolicyNoncomplianceException |-> Code("EBMS:0103", "PolicyNoncompliance", "failure", "Processing")]

\* Classes whose detail is an attribute of the class, unless one is given.
Fixed ==
    [BundledMessagesNotSupportedException |-> "BaseFeatureNotSupportedException",
     UserMessageNotFoundException |-> "BaseValueInconsistentException",
     PayloadInfoNotFoundException |-> "BaseValueInconsistentException",
     DuplicateHeaderElementException |-> "BaseInvalidHeaderException",
     MalformedSoapEnvelopeException |-> "BaseInvalidHeaderException",
     SoapPartNotFoundException |-> "BaseInvalidHeaderException",
     PayloadPartNotFoundException |-> "BaseInvalidHeaderException",
     DecompressionFailedException |-> "BaseDecompressionFailureException",
     DecompressedPayloadTooLargeException |-> "BaseDecompressionFailureException",
     SignatureSecurityTokenReferenceNotFoundException |-> "BaseFailedAuthenticationException",
     UntrustedSignerException |-> "BaseFailedAuthenticationException",
     SignatureVerificationFailedException |-> "BaseFailedAuthenticationException",
     EncryptedDataReferenceNotFoundException |-> "BaseEncryptedDataReferenceException",
     CipherValueNotFoundException |-> "BaseEncryptedDataReferenceException",
     CipherReferenceNotFoundException |-> "BaseEncryptedDataReferenceException",
     DecryptionFailedException |-> "BaseEncryptedDataReferenceException",
     SignatureRequiredException |-> "BasePolicyNoncomplianceException",
     EncryptionRequiredException |-> "BasePolicyNoncomplianceException",
     PeppolNotServicedException |-> "BaseProfileLevelException"]

\* Classes with a constructor of their own, which puts its argument into a
\* sentence: at the end of it, or inside it.
Ending ==
    [DigestMismatchException |-> "BaseFailedAuthenticationException",
     ReferenceTargetNotFoundException |-> "BaseFailedAuthenticationException",
     DuplicateElementIdException |-> "BaseFailedAuthenticationException",
     SignatureCoverageException |-> "BaseFailedAuthenticationException",
     EncryptedAttachmentNotFoundException |-> "BaseEncryptedDataReferenceException",
     UnsupportedSecurityTokenTypeException |-> "BasePolicyNoncomplianceException",
     UnsupportedSignatureAlgorithmException |-> "BasePolicyNoncomplianceException",
     UnsupportedEncryptionAlgorithmException |-> "BasePolicyNoncomplianceException",
     UnsupportedTransformException |-> "BasePolicyNoncomplianceException",
     UnsupportedDigestAlgorithmException |-> "BasePolicyNoncomplianceException"]

Enclosing ==
    [PartInfoWithoutMimePartException |-> "BaseMimeInconsistencyException",
     EncryptedDataNotFoundException |-> "BaseEncryptedDataReferenceException",
     PeppolPartyIdentifierException |-> "BaseProfileLevelException"]

\* Classes raised with a detail: those without any of their own, and the
\* base class from_validation_error makes.
Given ==
    [MessagingNotFoundException |-> "BaseValueInconsistentException",
     MessageIdNotFoundException |-> "BaseValueInconsistentException",
     PartyToNotFoundException |-> "BaseValueInconsistentException",
     BaseValueInconsistentException |-> "BaseValueInconsistentException",
     PeppolSBDHException |-> "BaseProfileLevelException"]

Base == Joined(Joined(Fixed, Ending), Joined(Enclosing, Given))
ErrorClass == DOMAIN Base

\* The constructors.  A sentence is never blank; one that ends in an empty
\* argument ends in white space, but for the one that ends in "cid:".
DetailOf(class, argument) ==
    CASE class \in DOMAIN Ending ->
           [words |-> <<class>> \o argument.words,
            padded |-> \/ argument.padded
                       \/ Blank(argument) /\ class # "EncryptedAttachmentNotFoundException"]
      [] class \in DOMAIN Enclosing -> TextOf(<<class>> \o argument.words \o <<"end">>)
      [] class \in DOMAIN Fixed -> IF argument = Empty THEN TextOf(<<class>>) ELSE argument
      [] class \in DOMAIN Given -> argument

Error(class, argument) == [class |-> class, detail |-> DetailOf(class, argument)]

\* dump_parse_error
DumpParseError(error) == [type |-> error.class, detail |-> error.detail]

\* Mutant: the class is called with the stored detail.
LoadByConstructor(stored) == Error(stored.type, stored.detail)

\* load_parse_error: from_stored leaves the constructor out.
LoadParseError(stored) == [class |-> stored.type, detail |-> stored.detail]
=============================================================================
