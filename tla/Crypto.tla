----------------------------- MODULE Crypto -----------------------------
(***************************************************************************)
(* The functions of src/src/crypto.rs that the handshake calls, as terms:  *)
(* a signature, a key or a ciphertext is the record of what it was made    *)
(* from, so two of them are equal exactly when they were made alike.       *)
(***************************************************************************)

\* sign_hmac: the token for a nonce under a shared secret.
SignHmac(nonce, secret) == [nonce |-> nonce, secret |-> secret]

\* verify_hmac: the token is the one this secret gives for this nonce.
VerifyHmac(nonce, secret, hash) == hash = SignHmac(nonce, secret)

\* generate_ecdh_keys: the public key of a secret one.
PublicKey(secret) == [public |-> secret]

\* Mutant: the exchange does not commute.
OrderedSessionKey(mySecret, theirPublic, salt) ==
  [shared |-> <<PublicKey(mySecret), theirPublic>>, salt |-> salt]

\* derive_session_key: Diffie and Hellman's secret is the same from both
\* sides, so it is the set of the two public keys; the salt goes in beside it.
SessionKey(mySecret, theirPublic, salt) ==
  [shared |-> {PublicKey(mySecret), theirPublic}, salt |-> salt]

\* encrypt_with_aad: the random nonce in front of it tells nothing apart here.
Encrypt(data, key, aad) == [data |-> data, key |-> key, aad |-> aad]

\* decrypt_with_aad succeeds under the key and the associated data the text
\* was made with, and then returns the data.
CanDecrypt(sealed, key, aad) == sealed.key = key /\ sealed.aad = aad
Decrypted(sealed) == sealed.data

=========================================================================
