----------------------------- MODULE CliSchema -----------------------------
(***************************************************************************)
(* What the command line takes and what its handlers read: CLI_ARGS of     *)
(* cli/src/argparse.ts, with the arity of every command and the pattern of *)
(* every argument, and COMMANDS of cli/src/cli.ts, with the arguments each *)
(* handler takes for given and those it looks for.  A pattern is the set   *)
(* of the sample words its regular expression matches.                     *)
(***************************************************************************)
EXTENDS Naturals, Sequences

(* The sample words: "one" 1, "year" 2021, "negative" -12, "name" alice.id,  *)
(* "long" a name of 40 characters, "id_address" ID-1Abc, "btc" 1AbcJ, "stx"  *)
(* SP0X, "key" and "compressed" 64 and 66 hexadecimal digits, "multisig"     *)
(* 2,<key>,<key>, "nosign" nosign:1Abc, "hash" 40 hexadecimal digits,        *)
(* "phrase" two words, "buckets" 16 numbers with commas, "file" ./file.txt,  *)
(* "keyword" --amount and "option" -d.                                       *)
Anything ==
    {"one", "year", "negative", "true", "url", "name", "long", "id_address", "btc", "stx",
     "key", "compressed", "multisig", "nosign", "hash", "phrase", "json", "buckets", "file",
     "keyword", "option"}

Name == {"year", "negative", "true", "name", "json", "keyword"}
Namespace == {"one", "year", "negative", "true", "json", "keyword", "option"}
Subdomain == {"name", "long", "key", "compressed", "hash", "phrase", "keyword"}
NameOrSubdomain == Name \cup Subdomain
Address == {"one", "true", "btc", "json"}
StacksAddress == {"one", "year", "stx"}
IDAddress == {"id_address"}
NameOrIDAddress == NameOrSubdomain \cup IDAddress
PrivateKey == {"key", "compressed"}
UncompressedKey == {"key"}
AnyPrivateKey == PrivateKey \cup {"multisig", "nosign"}
ZonefileHash == {"hash"}
Txid == {"key"}
Url == {"url"}
Boolean == {"one", "true"}
Integer == {"one", "year", "negative"}
Number == {"one", "year"}
Port == {"one", "year", "btc", "multisig", "buckets"}      \* it has no $
Identifier == {"true", "id_address", "stx", "key", "compressed", "hash", "json"}
OneWord == Anything \ {"phrase"}
Memo == Anything \ {"long", "key", "compressed", "multisig", "hash"}
Buckets == {"buckets"}

----------------------------------------------------------------------------
(* CLI_ARGS: minItems, maxItems, and the name and pattern of each item.      *)

Command(min, max, items) ==
    [min |-> min, max |-> max, names |-> [i \in DOMAIN items |-> items[i][1]],
     patterns |-> [i \in DOMAIN items |-> items[i][2]]]

args_announce == Command(2, 2, <<<<"message_hash", ZonefileHash>>,
    <<"owner_key", AnyPrivateKey>>>>)
args_authenticator == Command(2, 4, <<<<"app_gaia_hub", Url>>,
    <<"backup_phrase", Anything>>, <<"profile_gaia_hub", Url>>,
    <<"port", Port>>>>)
args_balance == Command(1, 1, <<<<"address", Address \cup StacksAddress>>>>)
args_can_stack == Command(4, 4, <<<<"amount", Number>>, <<"cycles", Number>>,
    <<"pox_address", Address>>, <<"stx_address", StacksAddress>>>>)
args_call_contract_func == Command(6, 6, <<
    <<"contract_address", StacksAddress>>, <<"contract_name", Identifier>>,
    <<"function_name", Identifier>>, <<"fee", Number>>, <<"nonce", Number>>,
    <<"payment_key", AnyPrivateKey>>>>)
args_call_read_only_contract_func == Command(4, 4, <<
    <<"contract_address", StacksAddress>>, <<"contract_name", Identifier>>,
    <<"function_name", Identifier>>, <<"sender_address", StacksAddress>>>>)
args_convert_address == Command(1, 1, <<
    <<"address", Address \cup StacksAddress>>>>)
args_decrypt_keychain == Command(1, 2, <<
    <<"encrypted_backup_phrase", OneWord>>, <<"password", Anything>>>>)
args_deploy_contract == Command(5, 5, <<<<"source_file", Anything>>,
    <<"contract_name", Identifier>>, <<"fee", Number>>, <<"nonce", Number>>,
    <<"payment_key", AnyPrivateKey>>>>)
args_docs == Command(0, 1, <<<<"format", {"json"}>>>>)
args_encrypt_keychain == Command(1, 2, <<<<"backup_phrase", Anything>>,
    <<"password", Anything>>>>)
args_faucet == Command(1, 1, <<<<"address", Address \cup StacksAddress>>>>)
args_gaia_dump_bucket == Command(5, 5, <<
    <<"name_or_id_address", NameOrIDAddress>>, <<"app_origin", Url>>,
    <<"gaia_hub", Url>>, <<"backup_phrase", Anything>>,
    <<"dump_dir", Anything>>>>)
args_gaia_getfile == Command(3, 6, <<<<"blockstack_id", NameOrSubdomain>>,
    <<"app_origin", Url>>, <<"filename", Anything>>,
    <<"app_private_key", UncompressedKey>>, <<"decrypt", Boolean>>,
    <<"verify", Boolean>>>>)
args_gaia_putfile == Command(4, 6, <<<<"gaia_hub", Url>>,
    <<"app_private_key", UncompressedKey>>, <<"data_path", Anything>>,
    <<"gaia_filename", Anything>>, <<"encrypt", Boolean>>,
    <<"sign", Boolean>>>>)
args_gaia_deletefile == Command(3, 4, <<<<"gaia_hub", Url>>,
    <<"app_private_key", UncompressedKey>>, <<"gaia_filename", Anything>>,
    <<"was_signed", Boolean>>>>)
args_gaia_listfiles == Command(2, 3, <<<<"gaia_hub", Url>>,
    <<"app_private_key", UncompressedKey>>>>)
args_gaia_restore_bucket == Command(5, 5, <<
    <<"name_or_id_address", NameOrIDAddress>>, <<"app_origin", Url>>,
    <<"gaia_hub", Url>>, <<"backup_phrase", Anything>>,
    <<"dump_dir", Anything>>>>)
args_gaia_sethub == Command(5, 5, <<<<"blockstack_id", NameOrSubdomain>>,
    <<"owner_gaia_hub", Url>>, <<"app_origin", Url>>, <<"app_gaia_hub", Url>>,
    <<"backup_phrase", Anything>>>>)
args_get_account_history == Command(2, 2, <<<<"address", StacksAddress>>,
    <<"page", Number>>>>)
args_get_account_at == Command(2, 2, <<<<"address", StacksAddress>>,
    <<"blocknumber", Number>>>>)
args_get_address == Command(1, 1, <<<<"private_key", AnyPrivateKey>>>>)
args_get_blockchain_record == Command(1, 1, <<
    <<"blockstack_id", NameOrSubdomain>>>>)
args_get_blockchain_history == Command(1, 2, <<
    <<"blockstack_id", NameOrSubdomain>>, <<"page", Number>>>>)
args_get_confirmations == Command(1, 1, <<<<"txid", Txid>>>>)
args_get_namespace_blockchain_record == Command(1, 1, <<
    <<"namespace_id", Namespace>>>>)
args_get_app_keys == Command(3, 3, <<<<"backup_phrase", Anything>>,
    <<"name_or_id_address", NameOrIDAddress>>, <<"app_origin", Url>>>>)
args_get_owner_keys == Command(1, 2, <<<<"backup_phrase", Anything>>,
    <<"index", Number>>>>)
args_get_payment_key == Command(1, 1, <<<<"backup_phrase", Anything>>>>)
args_get_stacks_wallet_key == Command(1, 1, <<<<"backup_phrase", Anything>>>>)
args_get_zonefile == Command(1, 1, <<<<"zonefile_hash", ZonefileHash>>>>)
args_help == Command(0, 1, <<<<"command", Anything>>>>)
args_lookup == Command(1, 1, <<<<"blockstack_id", NameOrSubdomain>>>>)
args_names == Command(1, 1, <<<<"id_address", IDAddress>>>>)
args_make_keychain == Command(0, 1, <<<<"backup_phrase", Anything>>>>)
args_make_zonefile == Command(3, 4, <<<<"blockstack_id", NameOrSubdomain>>,
    <<"id_address", IDAddress>>, <<"gaia_url_prefix", Anything>>,
    <<"resolver_url", Anything>>>>)
args_name_import == Command(4, 6, <<<<"blockstack_id", Name>>,
    <<"id_address", IDAddress>>, <<"gaia_url_prefix", Anything>>,
    <<"reveal_key", AnyPrivateKey>>, <<"zonefile", Anything>>,
    <<"zonefile_hash", ZonefileHash>>>>)
args_namespace_preorder == Command(3, 3, <<<<"namespace_id", Namespace>>,
    <<"reveal_address", Address>>, <<"payment_key", AnyPrivateKey>>>>)
args_namespace_reveal == Command(10, 10, <<<<"namespace_id", Namespace>>,
    <<"reveal_address", Address>>, <<"version", Integer>>,
    <<"lifetime", Integer>>, <<"coefficient", Integer>>, <<"base", Integer>>,
    <<"price_buckets", Buckets>>, <<"nonalpha_discount", Integer>>,
    <<"no_vowel_discount", Integer>>, <<"payment_key", AnyPrivateKey>>>>)
args_namespace_ready == Command(2, 2, <<<<"namespace_id", Namespace>>,
    <<"reveal_key", AnyPrivateKey>>>>)
args_price == Command(1, 1, <<<<"blockstack_id", Name>>>>)
args_price_namespace == Command(1, 1, <<<<"namespace_id", Namespace>>>>)
args_profile_sign == Command(2, 2, <<<<"profile", Anything>>,
    <<"owner_key", PrivateKey>>>>)
args_profile_store == Command(4, 4, <<<<"user_id", NameOrIDAddress>>,
    <<"profile", Anything>>, <<"owner_key", PrivateKey>>,
    <<"gaia_hub", Anything>>>>)
args_profile_verify == Command(2, 2, <<<<"profile", Anything>>,
    <<"id_address", IDAddress \cup {"compressed"}>>>>)
args_renew == Command(3, 6, <<<<"blockstack_id", Name>>,
    <<"owner_key", AnyPrivateKey>>, <<"payment_key", AnyPrivateKey>>,
    <<"new_id_address", IDAddress>>, <<"zonefile", Anything>>,
    <<"zonefile_hash", ZonefileHash>>>>)
args_register == Command(4, 5, <<<<"blockstack_id", Name>>,
    <<"owner_key", PrivateKey>>, <<"payment_key", AnyPrivateKey>>,
    <<"gaia_hub", Anything>>, <<"zonefile", Anything>>>>)
args_register_addr == Command(4, 5, <<<<"blockstack_id", Name>>,
    <<"id-address", IDAddress>>, <<"payment_key", AnyPrivateKey>>,
    <<"gaia_url_prefix", Anything>>, <<"zonefile", Anything>>>>)
args_register_subdomain == Command(4, 5, <<<<"blockstack_id", Subdomain>>,
    <<"owner_key", PrivateKey>>, <<"gaia_hub", Anything>>,
    <<"registrar", Anything>>, <<"zonefile", Anything>>>>)
args_revoke == Command(3, 3, <<<<"blockstack_id", Name>>,
    <<"owner_key", AnyPrivateKey>>, <<"payment_key", AnyPrivateKey>>>>)
args_send_btc == Command(3, 3, <<<<"recipient_address", Address>>,
    <<"amount", Integer>>, <<"payment_key", AnyPrivateKey>>>>)
args_send_tokens == Command(5, 6, <<<<"address", StacksAddress>>,
    <<"amount", Number>>, <<"fee", Number>>, <<"nonce", Number>>,
    <<"payment_key", AnyPrivateKey>>, <<"memo", Memo>>>>)
args_stack == Command(4, 6, <<<<"amount", Number>>, <<"cycles", Number>>,
    <<"pox_address", Address>>, <<"private_key", AnyPrivateKey>>,
    <<"fee", Number>>, <<"nonce", Number>>>>)
args_stacking_status == Command(1, 1, <<<<"pox_address", StacksAddress>>>>)
args_transfer == Command(5, 5, <<<<"blockstack_id", Name>>,
    <<"new_id_address", IDAddress>>, <<"keep_zonefile", {"true"}>>,
    <<"owner_key", AnyPrivateKey>>, <<"payment_key", AnyPrivateKey>>>>)
args_tx_preorder == Command(3, 3, <<<<"blockstack_id", Name>>,
    <<"id_address", IDAddress>>, <<"payment_key", AnyPrivateKey>>>>)
args_tx_register == Command(3, 5, <<<<"blockstack_id", Name>>,
    <<"id_address", IDAddress>>, <<"payment_key", AnyPrivateKey>>,
    <<"zonefile", Anything>>, <<"zonefile_hash", ZonefileHash>>>>)
args_update == Command(4, 5, <<<<"blockstack_id", Name>>,
    <<"zonefile", Anything>>, <<"owner_key", AnyPrivateKey>>,
    <<"payment_key", AnyPrivateKey>>, <<"zonefile_hash", ZonefileHash>>>>)
args_whois == Command(1, 1, <<<<"blockstack_id", NameOrSubdomain>>>>)
args_zonefile_push == Command(1, 1, <<<<"zonefile", Anything>>>>)
args_get_did_configuration == Command(3, 3, <<
    <<"blockstack_id", NameOrSubdomain>>, <<"domain", NameOrSubdomain>>,
    <<"owner_key", PrivateKey>>>>)

CLI_ARGS ==
    [announce |-> args_announce, authenticator |-> args_authenticator,
     balance |-> args_balance, can_stack |-> args_can_stack,
     call_contract_func |-> args_call_contract_func,
     call_read_only_contract_func |-> args_call_read_only_contract_func,
     convert_address |-> args_convert_address,
     decrypt_keychain |-> args_decrypt_keychain,
     deploy_contract |-> args_deploy_contract, docs |-> args_docs,
     encrypt_keychain |-> args_encrypt_keychain, faucet |-> args_faucet,
     gaia_dump_bucket |-> args_gaia_dump_bucket,
     gaia_getfile |-> args_gaia_getfile, gaia_putfile |-> args_gaia_putfile,
     gaia_deletefile |-> args_gaia_deletefile,
     gaia_listfiles |-> args_gaia_listfiles,
     gaia_restore_bucket |-> args_gaia_restore_bucket,
     gaia_sethub |-> args_gaia_sethub,
     get_account_history |-> args_get_account_history,
     get_account_at |-> args_get_account_at, get_address |-> args_get_address,
     get_blockchain_record |-> args_get_blockchain_record,
     get_blockchain_history |-> args_get_blockchain_history,
     get_confirmations |-> args_get_confirmations,
     get_namespace_blockchain_record |-> args_get_namespace_blockchain_record,
     get_app_keys |-> args_get_app_keys,
     get_owner_keys |-> args_get_owner_keys,
     get_payment_key |-> args_get_payment_key,
     get_stacks_wallet_key |-> args_get_stacks_wallet_key,
     get_zonefile |-> args_get_zonefile, help |-> args_help,
     lookup |-> args_lookup, names |-> args_names,
     make_keychain |-> args_make_keychain,
     make_zonefile |-> args_make_zonefile, name_import |-> args_name_import,
     namespace_preorder |-> args_namespace_preorder,
     namespace_reveal |-> args_namespace_reveal,
     namespace_ready |-> args_namespace_ready, price |-> args_price,
     price_namespace |-> args_price_namespace,
     profile_sign |-> args_profile_sign, profile_store |-> args_profile_store,
     profile_verify |-> args_profile_verify, renew |-> args_renew,
     register |-> args_register, register_addr |-> args_register_addr,
     register_subdomain |-> args_register_subdomain, revoke |-> args_revoke,
     send_btc |-> args_send_btc, send_tokens |-> args_send_tokens,
     stack |-> args_stack, stacking_status |-> args_stacking_status,
     transfer |-> args_transfer, tx_preorder |-> args_tx_preorder,
     tx_register |-> args_tx_register, update |-> args_update,
     whois |-> args_whois, zonefile_push |-> args_zonefile_push,
     get_did_configuration |-> args_get_did_configuration]

----------------------------------------------------------------------------
(* The handlers: how many arguments they take for given, from the first on,  *)
(* and the optional ones they look for.                                      *)

Reads(given, optional) == [given |-> given, optional |-> optional]

authDaemon == Reads(2, {3, 4})
balance == Reads(1, {})
canStack == Reads(4, {})
contractFunctionCall == Reads(6, {})
readOnlyContractFunctionCall == Reads(4, {})
addressConvert == Reads(1, {})
decryptMnemonic == Reads(1, {2})
contractDeploy == Reads(5, {})
printDocs == Reads(0, {})
encryptMnemonic == Reads(1, {2})
faucetCall == Reads(1, {})
gaiaDeleteFile == Reads(3, {4})
gaiaDumpBucket == Reads(5, {})
gaiaGetFile == Reads(3, {4, 5, 6})
gaiaListFiles == Reads(2, {})
gaiaPutFile == Reads(4, {5, 6})
gaiaRestoreBucket == Reads(5, {})
gaiaSetHub == Reads(5, {})
getAccountHistory == Reads(1, {2})
getKeyAddress == Reads(1, {})
getAppKeys == Reads(3, {})
getOwnerKeys == Reads(1, {2})
getPaymentKey == Reads(1, {})
getStacksWalletKey == Reads(1, {})
makeKeychain == Reads(0, {1})
profileSign == Reads(2, {})
profileStore == Reads(4, {})
profileVerify == Reads(2, {})
sendTokens == Reads(5, {6})
stack == Reads(4, {})
stackingStatus == Reads(1, {})

COMMANDS ==
    [authenticator |-> authDaemon, balance |-> balance, can_stack |-> canStack,
     call_contract_func |-> contractFunctionCall,
     call_read_only_contract_func |-> readOnlyContractFunctionCall,
     convert_address |-> addressConvert, decrypt_keychain |-> decryptMnemonic,
     deploy_contract |-> contractDeploy, docs |-> printDocs,
     encrypt_keychain |-> encryptMnemonic, faucet |-> faucetCall,
     gaia_deletefile |-> gaiaDeleteFile, gaia_dump_bucket |-> gaiaDumpBucket,
     gaia_getfile |-> gaiaGetFile, gaia_listfiles |-> gaiaListFiles,
     gaia_putfile |-> gaiaPutFile, gaia_restore_bucket |-> gaiaRestoreBucket,
     gaia_sethub |-> gaiaSetHub, get_account_history |-> getAccountHistory,
     get_address |-> getKeyAddress, get_app_keys |-> getAppKeys,
     get_owner_keys |-> getOwnerKeys, get_payment_key |-> getPaymentKey,
     get_stacks_wallet_key |-> getStacksWalletKey,
     make_keychain |-> makeKeychain, profile_sign |-> profileSign,
     profile_store |-> profileStore, profile_verify |-> profileVerify,
     send_tokens |-> sendTokens, stack |-> stack,
     stacking_status |-> stackingStatus]
=============================================================================
