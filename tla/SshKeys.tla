------------------------------- MODULE SshKeys -------------------------------
(***************************************************************************)
(* An SSH key on its way from the user's file to the key file that Ansible *)
(* uses, and back: what utils/index.ts does with it.  A key is named by    *)
(* the file that holds it.                                                 *)
(***************************************************************************)
CONSTANTS Files,   \* the files the user chooses from
          NoFile,  \* no file
          Secrets, \* values the server's ENCRYPTION_KEY may have
          NoSecret \* ENCRYPTION_KEY is not set

ASSUME KeyAssumption == NoFile \notin Files /\ NoSecret \notin Secrets

NoKey        == [kind |-> "none", of |-> NoFile]
File(k)      == [kind |-> "file", of |-> k]
Base64(k)    == [kind |-> "base64", of |-> k]
Cipher(k, s) == [kind |-> "cipher", of |-> k, by |-> s]
Plain(k)     == [kind |-> "key", of |-> k]

Servers == Secrets \cup {NoSecret}

(* decryptSSHKey throws unless the server has the secret that encrypted the *)
(* key; GET /api/clusters then logs the error and answers with the          *)
(* ciphertext.                                                              *)
Decrypted(key, s) ==
    IF key.kind = "cipher" /\ s # NoSecret /\ s = key.by THEN Plain(key.of) ELSE key
=============================================================================
