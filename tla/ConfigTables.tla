---------------------------- MODULE ConfigTables ----------------------------
(***************************************************************************)
(* The tables of the FreeSWITCH configurations CustomPBX manages, and what *)
(* each part of the program believes about them: the schema, the importers,*)
(* the setters, the XML functions that serve FreeSWITCH, and the requests  *)
(* of the administrators.  Each is written down on its own in the code, for*)
(* fifty configurations, by hand; ConfigTree composes them.                *)
(* A table has the name of its Go type without the prefix "Config", a      *)
(* configuration that of its constant in mainStruct without "Conf".        *)
(***************************************************************************)
EXTENDS TLC

-----------------------------------------------------------------------------
(* The schema, a function per file of altStruct: a table is mapped to the
   table its rows belong to, or to the configuration (the row of
   configurations_list) for the tables at the top.  The foreign keys
   cascade; a row is unique by name among its siblings, except the nodes of
   an access list, the images of a layout and the members of a queue. *)
TtsCommandlineTables == [TtsCommandlineSetting |-> "TtsCommandline"]
AclTables == [AclList |-> "Acl", AclNode |-> "AclList"]
AlsaTables == [AlsaSetting |-> "Alsa"]
AmrTables == [AmrSetting |-> "Amr"]
AmrwbTables == [AmrwbSetting |-> "Amrwb"]
AvmdTables == [AvmdSetting |-> "Avmd"]
CallcenterTables == [CallcenterSetting |-> "Callcenter",
    CallcenterQueue |-> "Callcenter",
    CallcenterQueueParameter |-> "CallcenterQueue"]
CdrMongodbTables == [CdrMongodbSetting |-> "CdrMongodb"]
CdrPgCsvTables == [CdrPgCsvSetting |-> "CdrPgCsv",
    CdrPgCsvSchema |-> "CdrPgCsv"]
CespalTables == [CespalSetting |-> "Cepstral"]
CidlookupTables == [CidlookupSetting |-> "Cidlookup"]
ConferenceTables == [ConferenceAdvertiseRoom |-> "Conference",
    ConferenceCallerControlGroup |-> "Conference",
    ConferenceCallerControlGroupControl |-> "ConferenceCallerControlGroup",
    ConferenceChatPermissionProfile |-> "Conference",
    ConferenceChatPermissionProfileUser |-> "ConferenceChatPermissionProfile",
    ConferenceProfile |-> "Conference",
    ConferenceProfileParameter |-> "ConferenceProfile"]
ConferenceLayoutTables == [ConferenceLayout |-> "ConferenceLayouts",
    ConferenceLayoutImage |-> "ConferenceLayout",
    ConferenceLayoutGroup |-> "ConferenceLayouts",
    ConferenceLayoutGroupLayout |-> "ConferenceLayoutGroup"]
CurlTables == [CurlSetting |-> "Curl"]
DbTables == [DbSetting |-> "Db"]
DialplanDirectoryTables == [DialplanDirectorySetting |-> "DialplanDirectory"]
DirectoryTables == [DirectorySetting |-> "Directory",
    DirectoryProfile |-> "Directory",
    DirectoryProfileParameter |-> "DirectoryProfile"]
DistributorTables == [DistributorList |-> "Distributor",
    DistributorListNode |-> "DistributorList"]
EasyrouteTables == [EasyrouteSetting |-> "Easyroute"]
ErlangEventTables == [ErlangEventSetting |-> "ErlangEvent"]
EventMulicastTables == [EventMulticastSetting |-> "EventMulticast"]
FaxTables == [FaxSetting |-> "Fax"]
FifoTables == [FifoSetting |-> "Fifo", FifoFifo |-> "Fifo",
    FifoFifoMember |-> "FifoFifo"]
HttpCacheTables == [HttpCacheSetting |-> "HttpCache",
    HttpCacheProfile |-> "HttpCache",
    HttpCacheProfileAWSS3 |-> "HttpCacheProfile",
    HttpCacheProfileAzureBlob |-> "HttpCacheProfile",
    HttpCacheProfileDomain |-> "HttpCacheProfile"]
LcrTables == [LcrSetting |-> "Lcr", LcrProfile |-> "Lcr",
    LcrProfileParameter |-> "LcrProfile"]
LuaTables == [LuaSetting |-> "Lua"]
MemcacheTables == [MemcacheSetting |-> "Memcache"]
MongoTables == [MongoSetting |-> "Mongo"]
MsrpTables == [MsrpSetting |-> "Msrp"]
NibblebillTables == [NibblebillSetting |-> "Nibblebill"]
OdbcCdrTables == [OdbcCdrSetting |-> "OdbcCdr", OdbcCdrTable |-> "OdbcCdr",
    OdbcCdrTableField |-> "OdbcCdrTable"]
OpalTables == [OpalSetting |-> "Opal", OpalListener |-> "Opal",
    OpalListenerParameter |-> "OpalListener"]
OpusTables == [OpusSetting |-> "Opus"]
OrekaTables == [OrekaSetting |-> "Oreka"]
OspTables == [OspSetting |-> "Osp", OspProfile |-> "Osp",
    OspProfileParameter |-> "OspProfile"]
PerlTables == [PerlSetting |-> "Perl"]
PocketsphinxTables == [PocketsphinxSetting |-> "Pocketsphinx"]
PostLoadModulesTables == [PostLoadModule |-> "PostLoadModules"]
PostLoadSwitchTables == [PostLoadSwitchSetting |-> "PostLoadSwitch",
    PostLoadSwitchCliKeybinding |-> "PostLoadSwitch",
    PostLoadSwitchDefaultPtime |-> "PostLoadSwitch"]
PythonTables == [PythonSetting |-> "Python"]
RedisTables == [RedisSetting |-> "Redis"]
SangomaCodecTables == [SangomaCodecSetting |-> "SangomaCodec"]
ShoutTables == [ShoutSetting |-> "Shout"]
SndfileTables == [SndfileSetting |-> "Sndfile"]
SofiaTables == [SofiaGlobalSetting |-> "Sofia", SofiaProfile |-> "Sofia",
    SofiaProfileParameter |-> "SofiaProfile",
    SofiaProfileAlias |-> "SofiaProfile",
    SofiaProfileDomain |-> "SofiaProfile",
    SofiaProfileGateway |-> "SofiaProfile",
    SofiaProfileGatewayParameter |-> "SofiaProfileGateway",
    SofiaProfileGatewayVariable |-> "SofiaProfileGateway"]
UnicallTables == [UnicallSetting |-> "Unicall", UnicallSpan |-> "Unicall",
    UnicallSpanParameter |-> "UnicallSpan"]
VertoTables == [VertoSetting |-> "Verto", VertoProfile |-> "Verto",
    VertoProfileParameter |-> "VertoProfile"]
VoicemailTables == [VoicemailSetting |-> "Voicemail",
    VoicemailProfile |-> "Voicemail",
    VoicemailProfileParameter |-> "VoicemailProfile",
    VoicemailProfileEmailParameter |-> "VoicemailProfile"]
XmlCdrTables == [XmlCdrSetting |-> "XmlCdr"]
XmlRpcTables == [XmlRpcSetting |-> "XmlRpc"]
ZeroTables == [ZeroconfSetting |-> "Zeroconf"]

Schema == TtsCommandlineTables @@ AclTables @@ AlsaTables @@ AmrTables @@
    AmrwbTables @@ AvmdTables @@ CallcenterTables @@ CdrMongodbTables @@
    CdrPgCsvTables @@ CespalTables @@ CidlookupTables @@ ConferenceTables @@
    ConferenceLayoutTables @@ CurlTables @@ DbTables @@
    DialplanDirectoryTables @@ DirectoryTables @@ DistributorTables @@
    EasyrouteTables @@ ErlangEventTables @@ EventMulicastTables @@
    FaxTables @@ FifoTables @@ HttpCacheTables @@ LcrTables @@ LuaTables @@
    MemcacheTables @@ MongoTables @@ MsrpTables @@ NibblebillTables @@
    OdbcCdrTables @@ OpalTables @@ OpusTables @@ OrekaTables @@ OspTables @@
    PerlTables @@ PocketsphinxTables @@ PostLoadModulesTables @@
    PostLoadSwitchTables @@ PythonTables @@ RedisTables @@
    SangomaCodecTables @@ ShoutTables @@ SndfileTables @@ SofiaTables @@
    UnicallTables @@ VertoTables @@ VoicemailTables @@ XmlCdrTables @@
    XmlRpcTables @@ ZeroTables

-----------------------------------------------------------------------------
(* The importers: the configuration whose row is made, and the tables in
   the order in which a document is walked (a row before the rows below it). *)
setConfigAcl == [row |-> "Acl", walk |-> <<"AclList", "AclNode">>]
setConfigCallcenter == [row |-> "Callcenter", walk |-> <<"CallcenterSetting",
    "CallcenterQueue", "CallcenterQueueParameter">>]
setConfigCdrPgCsv == [row |-> "CdrPgCsv", walk |-> <<"CdrPgCsvSetting",
    "CdrPgCsvSchema">>]
setConfigOdbcCdr == [row |-> "OdbcCdr", walk |-> <<"OdbcCdrSetting",
    "OdbcCdrTable", "OdbcCdrTableField">>]
setConfigDistributor == [row |-> "Distributor", walk |-> <<"DistributorList",
    "DistributorListNode">>]
setConfigConference == [row |-> "Conference", walk |-> <<
    "ConferenceAdvertiseRoom", "ConferenceChatPermissionProfile",
    "ConferenceChatPermissionProfileUser", "ConferenceCallerControlGroup",
    "ConferenceCallerControlGroupControl", "ConferenceProfile",
    "ConferenceProfileParameter">>]
setConfigConferenceLayouts == [row |-> "ConferenceLayouts", walk |-> <<
    "ConferenceLayoutGroup", "ConferenceLayoutGroupLayout",
    "ConferenceLayout", "ConferenceLayoutImage">>]
setConfigSofia == [row |-> "Sofia", walk |-> <<"SofiaGlobalSetting",
    "SofiaProfile", "SofiaProfileAlias", "SofiaProfileGateway",
    "SofiaProfileGatewayParameter", "SofiaProfileGatewayVariable",
    "SofiaProfileDomain", "SofiaProfileParameter">>]
setConfigVerto == [row |-> "Verto", walk |-> <<"VertoSetting",
    "VertoProfile", "VertoProfileParameter">>]
setConfigLcr == [row |-> "Lcr", walk |-> <<"LcrSetting", "LcrProfile",
    "LcrProfileParameter">>]
setConfigShout == [row |-> "Shout", walk |-> <<"ShoutSetting">>]
setConfigRedis == [row |-> "Redis", walk |-> <<"RedisSetting">>]
setConfigNibblebill == [row |-> "Nibblebill", walk |-> <<
    "NibblebillSetting">>]
setConfigDb == [row |-> "Db", walk |-> <<"DbSetting">>]
setConfigMemcache == [row |-> "Memcache", walk |-> <<"MemcacheSetting">>]
setConfigAvmd == [row |-> "Avmd", walk |-> <<"AvmdSetting">>]
setConfigTtsCommandline == [row |-> "TtsCommandline", walk |-> <<
    "TtsCommandlineSetting">>]
setConfigCdrMongodb == [row |-> "CdrMongodb", walk |-> <<
    "CdrMongodbSetting">>]
setConfigHttpCache == [row |-> "HttpCache", walk |-> <<"HttpCacheSetting",
    "HttpCacheProfile", "HttpCacheProfileAWSS3", "HttpCacheProfileAzureBlob",
    "HttpCacheProfileDomain">>]
setConfigOpus == [row |-> "Opus", walk |-> <<"OpusSetting">>]
setConfigPython == [row |-> "Python", walk |-> <<"PythonSetting">>]
setConfigAlsa == [row |-> "Alsa", walk |-> <<"AlsaSetting">>]
setConfigAmr == [row |-> "Amr", walk |-> <<"AmrSetting">>]
setConfigAmrwb == [row |-> "Amrwb", walk |-> <<"AmrwbSetting">>]
setConfigCepstral == [row |-> "Cepstral", walk |-> <<"CespalSetting">>]
setConfigCidlookup == [row |-> "Cidlookup", walk |-> <<"CidlookupSetting">>]
setConfigCurl == [row |-> "Curl", walk |-> <<"CurlSetting">>]
setConfigDialplanDirectory == [row |-> "DialplanDirectory", walk |-> <<
    "DialplanDirectorySetting">>]
setConfigEasyroute == [row |-> "Easyroute", walk |-> <<"EasyrouteSetting">>]
setConfigErlangEvent == [row |-> "ErlangEvent", walk |-> <<
    "ErlangEventSetting">>]
setConfigEventMulticast == [row |-> "EventMulticast", walk |-> <<
    "EventMulticastSetting">>]
setConfigFax == [row |-> "Fax", walk |-> <<"FaxSetting">>]
setConfigLua == [row |-> "Lua", walk |-> <<"LuaSetting">>]
setConfigMongo == [row |-> "Mongo", walk |-> <<"MongoSetting">>]
setConfigMsrp == [row |-> "Msrp", walk |-> <<"MsrpSetting">>]
setConfigOreka == [row |-> "Oreka", walk |-> <<"OrekaSetting">>]
setConfigPerl == [row |-> "Perl", walk |-> <<"PerlSetting">>]
setConfigPocketsphinx == [row |-> "Pocketsphinx", walk |-> <<
    "PocketsphinxSetting">>]
setConfigSangomaCodec == [row |-> "SangomaCodec", walk |-> <<
    "SangomaCodecSetting">>]
setConfigSndfile == [row |-> "Sndfile", walk |-> <<"SndfileSetting">>]
setConfigXmlCdr == [row |-> "XmlCdr", walk |-> <<"XmlCdrSetting">>]
setConfigXmlRpc == [row |-> "XmlRpc", walk |-> <<"XmlRpcSetting">>]
setConfigZeroconf == [row |-> "Zeroconf", walk |-> <<"ZeroconfSetting">>]
setConfigPostSwitch == [row |-> "PostLoadSwitch", walk |-> <<
    "PostLoadSwitchSetting", "PostLoadSwitchCliKeybinding",
    "PostLoadSwitchDefaultPtime">>]
setConfigDirectory == [row |-> "Directory", walk |-> <<"DirectorySetting",
    "DirectoryProfile", "DirectoryProfileParameter">>]
setConfigFifo == [row |-> "Fifo", walk |-> <<"FifoSetting", "FifoFifo",
    "FifoFifoMember">>]
setConfigOpal == [row |-> "Opal", walk |-> <<"OpalSetting", "OpalListener",
    "OpalListenerParameter">>]
setConfigOsp == [row |-> "Osp", walk |-> <<"OspSetting", "OspProfile",
    "OspProfileParameter">>]
setConfigUnicall == [row |-> "Unicall", walk |-> <<"UnicallSetting",
    "UnicallSpan", "UnicallSpanParameter">>]
setConfigPostLoadModules == [row |-> "PostLoadModules", walk |-> <<
    "PostLoadModule">>]
setConfigVoicemail == [row |-> "Voicemail", walk |-> <<"VoicemailSetting",
    "VoicemailProfile", "VoicemailProfileParameter",
    "VoicemailProfileEmailParameter">>]
\* The importer of a document, by its name.
InitConfigModule == [Switch |-> setConfigPostSwitch,
    ConferenceLayouts |-> setConfigConferenceLayouts, Acl |-> setConfigAcl,
    Callcenter |-> setConfigCallcenter, CdrPgCsv |-> setConfigCdrPgCsv,
    OdbcCdr |-> setConfigOdbcCdr, Sofia |-> setConfigSofia,
    Verto |-> setConfigVerto, Lcr |-> setConfigLcr, Shout |-> setConfigShout,
    Redis |-> setConfigRedis, Nibblebill |-> setConfigNibblebill,
    Db |-> setConfigDb, Memcache |-> setConfigMemcache,
    Avmd |-> setConfigAvmd, TtsCommandline |-> setConfigTtsCommandline,
    CdrMongodb |-> setConfigCdrMongodb, HttpCache |-> setConfigHttpCache,
    Opus |-> setConfigOpus, Python |-> setConfigPython,
    Alsa |-> setConfigAlsa, Amr |-> setConfigAmr, Amrwb |-> setConfigAmrwb,
    Cepstral |-> setConfigCepstral, Cidlookup |-> setConfigCidlookup,
    Curl |-> setConfigCurl, DialplanDirectory |-> setConfigDialplanDirectory,
    Easyroute |-> setConfigEasyroute, ErlangEvent |-> setConfigErlangEvent,
    EventMulticast |-> setConfigEventMulticast, Fax |-> setConfigFax,
    Lua |-> setConfigLua, Mongo |-> setConfigMongo, Msrp |-> setConfigMsrp,
    Oreka |-> setConfigOreka, Perl |-> setConfigPerl,
    Pocketsphinx |-> setConfigPocketsphinx,
    SangomaCodec |-> setConfigSangomaCodec, Sndfile |-> setConfigSndfile,
    XmlCdr |-> setConfigXmlCdr, XmlRpc |-> setConfigXmlRpc,
    Zeroconf |-> setConfigZeroconf, Distributor |-> setConfigDistributor,
    Directory |-> setConfigDirectory, Fifo |-> setConfigFifo,
    Opal |-> setConfigOpal, Osp |-> setConfigOsp,
    Unicall |-> setConfigUnicall, Conference |-> setConfigConference,
    PostLoadModules |-> setConfigPostLoadModules,
    Voicemail |-> setConfigVoicemail]

-----------------------------------------------------------------------------
(* The tables the setters the importers call insert an enabled row into,
   under the parent they are given. *)
AclSofiaRows == {"AclList", "AclNode", "SofiaGlobalSetting", "SofiaProfile",
    "SofiaProfileAlias", "SofiaProfileGateway",
    "SofiaProfileGatewayParameter", "SofiaProfileGatewayVariable",
    "SofiaProfileDomain", "SofiaProfileParameter"}
CdrVertoLcrRows == {"CdrPgCsvSetting", "CdrPgCsvSchema", "VertoSetting",
    "VertoProfile", "VertoProfileParameter", "OdbcCdrSetting",
    "OdbcCdrTable", "OdbcCdrTableField", "LcrSetting", "LcrProfile",
    "LcrProfileParameter"}
ShoutToHttpCacheRows == {"ShoutSetting", "RedisSetting", "NibblebillSetting",
    "DbSetting", "MemcacheSetting", "AvmdSetting", "TtsCommandlineSetting",
    "CdrMongodbSetting", "HttpCacheSetting", "HttpCacheProfile",
    "HttpCacheProfileAWSS3", "HttpCacheProfileAzureBlob",
    "HttpCacheProfileDomain"}
OpusToMongoRows == {"OpusSetting", "PythonSetting", "AlsaSetting",
    "AmrSetting", "AmrwbSetting", "CespalSetting", "CidlookupSetting",
    "CurlSetting", "DialplanDirectorySetting", "EasyrouteSetting",
    "ErlangEventSetting", "EventMulticastSetting", "FaxSetting",
    "LuaSetting", "MongoSetting"}
MsrpToZeroconfRows == {"MsrpSetting", "OrekaSetting", "PerlSetting",
    "PocketsphinxSetting", "SangomaCodecSetting", "SndfileSetting",
    "XmlCdrSetting", "XmlRpcSetting", "ZeroconfSetting",
    "PostLoadSwitchSetting", "PostLoadSwitchCliKeybinding",
    "PostLoadSwitchDefaultPtime"}
DistributorToUnicallRows == {"DistributorList", "DistributorListNode",
    "DirectorySetting", "DirectoryProfile", "DirectoryProfileParameter",
    "FifoSetting", "FifoFifo", "FifoFifoMember", "OpalSetting",
    "OpalListener", "OpalListenerParameter", "OspSetting", "OspProfile",
    "OspProfileParameter", "UnicallSetting", "UnicallSpan",
    "UnicallSpanParameter"}
ConferenceRows == {"ConferenceAdvertiseRoom", "ConferenceCallerControlGroup",
    "ConferenceCallerControlGroupControl", "ConferenceProfile",
    "ConferenceProfileParameter", "ConferenceChatPermissionProfile",
    "ConferenceChatPermissionProfileUser", "ConferenceLayoutGroup",
    "ConferenceLayoutGroupLayout", "ConferenceLayout",
    "ConferenceLayoutImage"}
VoicemailCallcenterRows == {"PostLoadModule", "VoicemailSetting",
    "VoicemailProfile", "VoicemailProfileParameter",
    "VoicemailProfileEmailParameter", "CallcenterSetting", "CallcenterQueue",
    "CallcenterQueueParameter"}
SetConfRows == AclSofiaRows \cup CdrVertoLcrRows \cup ShoutToHttpCacheRows
    \cup OpusToMongoRows \cup MsrpToZeroconfRows \cup DistributorToUnicallRows
    \cup ConferenceRows \cup VoicemailCallcenterRows

-----------------------------------------------------------------------------
(* The XML functions: the elements of the answer to FreeSWITCH, each with
   the table its rows are read from. *)
Read(elements) == [e \in elements |-> e]
XMLPostSwitch ==
    [PostLoadSwitchSetting |-> "PostLoadSwitchSetting",
     PostLoadSwitchCliKeybinding |-> "PostLoadSwitchSetting",
     PostLoadSwitchDefaultPtime |-> "PostLoadSwitchSetting"]
XMLAcl == Read({"AclList", "AclNode"})
XMLCallcenter == Read({"CallcenterSetting", "CallcenterQueue",
    "CallcenterQueueParameter"})
XMLCdrPgCsv == Read({"CdrPgCsvSetting", "CdrPgCsvSchema"})
XMLOdbcCdr == Read({"OdbcCdrSetting", "OdbcCdrTable", "OdbcCdrTableField"})
XMLSofia == Read({"SofiaGlobalSetting", "SofiaProfile",
    "SofiaProfileParameter", "SofiaProfileAlias", "SofiaProfileDomain",
    "SofiaProfileGateway", "SofiaProfileGatewayParameter",
    "SofiaProfileGatewayVariable"})
XMLVerto == Read({"VertoSetting", "VertoProfile", "VertoProfileParameter"})
XMLLcr == Read({"LcrSetting", "LcrProfile", "LcrProfileParameter"})
XMLShout == Read({"ShoutSetting"})
XMLRedis == Read({"RedisSetting"})
XMLNibblebill == Read({"NibblebillSetting"})
XMLDb == Read({"DbSetting"})
XMLMemcache == Read({"MemcacheSetting"})
XMLAvmd == Read({"AvmdSetting"})
XMLTtsCommandline == Read({"TtsCommandlineSetting"})
XMLCdrMongodb == Read({"CdrMongodbSetting"})
XMLHttpCache == Read({"HttpCacheSetting", "HttpCacheProfile",
    "HttpCacheProfileAWSS3", "HttpCacheProfileAzureBlob",
    "HttpCacheProfileDomain"})
XMLOpus == Read({"OpusSetting"})
XMLPython == Read({"PythonSetting"})
XMLAlsa == Read({"AlsaSetting"})
XMLAmr == Read({"AmrSetting"})
XMLAmrwb == Read({"AmrwbSetting"})
XMLCepstral == Read({"CespalSetting"})
XMLCidlookup == Read({"CidlookupSetting"})
XMLCurl == Read({"CurlSetting"})
XMLDialplanDirectory == Read({"DialplanDirectorySetting"})
XMLEasyroute == Read({"EasyrouteSetting"})
XMLErlangEvent == Read({"ErlangEventSetting"})
XMLEventMulticast == Read({"EventMulticastSetting"})
XMLFax == Read({"FaxSetting"})
XMLLua == Read({"LuaSetting"})
XMLMongo == Read({"MongoSetting"})
XMLMsrp == Read({"MsrpSetting"})
XMLOreka == Read({"OrekaSetting"})
XMLPerl == Read({"PerlSetting"})
XMLPocketsphinx == Read({"PocketsphinxSetting"})
XMLSangomaCodec == Read({"SangomaCodecSetting"})
XMLSndfile == Read({"SndfileSetting"})
XMLXmlCdr == Read({"XmlCdrSetting"})
XMLXmlRpc == Read({"XmlRpcSetting"})
XMLZeroconf == Read({"ZeroconfSetting"})
XMLDirectory == Read({"DirectorySetting", "DirectoryProfile",
    "DirectoryProfileParameter"})
XMLFifo == Read({"FifoSetting", "FifoFifo", "FifoFifoMember"})
XMLOpal == Read({"OpalSetting", "OpalListener", "OpalListenerParameter"})
XMLOsp == Read({"OspSetting", "OspProfile", "OspProfileParameter"})
XMLUnicall == Read({"UnicallSetting", "UnicallSpan", "UnicallSpanParameter"})
XMLConference == Read({"ConferenceAdvertiseRoom",
    "ConferenceCallerControlGroup", "ConferenceCallerControlGroupControl",
    "ConferenceChatPermissionProfile", "ConferenceChatPermissionProfileUser",
    "ConferenceProfile", "ConferenceProfileParameter"})
XMLConferenceLayouts == Read({"ConferenceLayout", "ConferenceLayoutImage",
    "ConferenceLayoutGroup", "ConferenceLayoutGroupLayout"})
XMLPostLoadModules == Read({"PostLoadModule"})
XMLVoicemail == Read({"VoicemailSetting", "VoicemailProfile",
    "VoicemailProfileParameter", "VoicemailProfileEmailParameter"})
XMLDistributor == Read({"DistributorList", "DistributorListNode"})
\* The XML function of a configuration, by its name.
GetConfigSection == [PostLoadSwitch |-> XMLPostSwitch, Acl |-> XMLAcl,
    Callcenter |-> XMLCallcenter, CdrPgCsv |-> XMLCdrPgCsv,
    OdbcCdr |-> XMLOdbcCdr, Sofia |-> XMLSofia, Verto |-> XMLVerto,
    Lcr |-> XMLLcr, Shout |-> XMLShout, Redis |-> XMLRedis,
    Nibblebill |-> XMLNibblebill, Db |-> XMLDb, Memcache |-> XMLMemcache,
    Avmd |-> XMLAvmd, TtsCommandline |-> XMLTtsCommandline,
    CdrMongodb |-> XMLCdrMongodb, HttpCache |-> XMLHttpCache,
    Opus |-> XMLOpus, Python |-> XMLPython, Alsa |-> XMLAlsa, Amr |-> XMLAmr,
    Amrwb |-> XMLAmrwb, Cepstral |-> XMLCepstral, Cidlookup |-> XMLCidlookup,
    Curl |-> XMLCurl, DialplanDirectory |-> XMLDialplanDirectory,
    Easyroute |-> XMLEasyroute, ErlangEvent |-> XMLErlangEvent,
    EventMulticast |-> XMLEventMulticast, Fax |-> XMLFax, Lua |-> XMLLua,
    Mongo |-> XMLMongo, Msrp |-> XMLMsrp, Oreka |-> XMLOreka,
    Perl |-> XMLPerl, Pocketsphinx |-> XMLPocketsphinx,
    SangomaCodec |-> XMLSangomaCodec, Sndfile |-> XMLSndfile,
    XmlCdr |-> XMLXmlCdr, XmlRpc |-> XMLXmlRpc, Zeroconf |-> XMLZeroconf,
    Directory |-> XMLDirectory, Fifo |-> XMLFifo, Opal |-> XMLOpal,
    Osp |-> XMLOsp, Unicall |-> XMLUnicall, Conference |-> XMLConference,
    ConferenceLayouts |-> XMLConferenceLayouts,
    PostLoadModules |-> XMLPostLoadModules, Voicemail |-> XMLVoicemail,
    Distributor |-> XMLDistributor]

-----------------------------------------------------------------------------
(* Which configuration an administrator's request for a table is about. *)
GetConfName1 == [AclList |-> "Acl", AclNode |-> "Acl",
    AlsaSetting |-> "Alsa", AmrSetting |-> "Amr", AmrwbSetting |-> "Amrwb",
    AvmdSetting |-> "Avmd", CallcenterSetting |-> "Callcenter",
    CallcenterQueue |-> "Callcenter",
    CallcenterQueueParameter |-> "Callcenter",
    CdrMongodbSetting |-> "CdrMongodb", MongoSetting |-> "Mongo",
    CdrPgCsvSetting |-> "CdrPgCsv", CdrPgCsvSchema |-> "CdrPgCsv",
    CespalSetting |-> "Cepstral", CidlookupSetting |-> "Cidlookup",
    ConferenceAdvertiseRoom |-> "Conference",
    ConferenceCallerControlGroup |-> "Conference",
    ConferenceCallerControlGroupControl |-> "Conference"]
GetConfName2 == [ConferenceChatPermissionProfile |-> "Conference",
    ConferenceChatPermissionProfileUser |-> "Conference",
    ConferenceProfile |-> "Conference",
    ConferenceProfileParameter |-> "Conference",
    ConferenceLayout |-> "ConferenceLayouts",
    ConferenceLayoutImage |-> "ConferenceLayouts",
    ConferenceLayoutGroup |-> "ConferenceLayouts",
    ConferenceLayoutGroupLayout |-> "ConferenceLayouts",
    CurlSetting |-> "Curl", DbSetting |-> "Db",
    DialplanDirectorySetting |-> "DialplanDirectory",
    DirectorySetting |-> "DialplanDirectory",
    DirectoryProfile |-> "DialplanDirectory",
    DirectoryProfileParameter |-> "DialplanDirectory",
    DistributorList |-> "Distributor", DistributorListNode |-> "Distributor",
    EasyrouteSetting |-> "Easyroute", ErlangEventSetting |-> "ErlangEvent",
    EventMulticastSetting |-> "EventMulticast", FaxSetting |-> "Fax"]
GetConfName3 == [FifoSetting |-> "Fifo", FifoFifo |-> "Fifo",
    FifoFifoMember |-> "Fifo", HttpCacheSetting |-> "HttpCache",
    HttpCacheProfile |-> "HttpCache", HttpCacheProfileDomain |-> "HttpCache",
    HttpCacheProfileAWSS3 |-> "HttpCache",
    HttpCacheProfileAzureBlob |-> "HttpCache", LcrSetting |-> "Lcr",
    LcrProfile |-> "Lcr", LcrProfileParameter |-> "Lcr",
    LuaSetting |-> "Lua", MemcacheSetting |-> "Memcache",
    MsrpSetting |-> "Msrp", NibblebillSetting |-> "Nibblebill",
    OdbcCdrSetting |-> "OdbcCdr", OdbcCdrTable |-> "OdbcCdr",
    OdbcCdrTableField |-> "OdbcCdr", OpalSetting |-> "Opal",
    OpalListener |-> "Opal"]
GetConfName4 == [OpalListenerParameter |-> "Opal", OpusSetting |-> "Opus",
    OrekaSetting |-> "Oreka", OspSetting |-> "Osp", OspProfile |-> "Osp",
    OspProfileParameter |-> "Osp", PerlSetting |-> "Perl",
    PocketsphinxSetting |-> "Pocketsphinx",
    PostLoadSwitchSetting |-> "PostLoadSwitch",
    PostLoadSwitchCliKeybinding |-> "PostLoadSwitch",
    PostLoadSwitchDefaultPtime |-> "PostLoadSwitch",
    PostLoadModule |-> "PostLoadModules", PythonSetting |-> "Python",
    RedisSetting |-> "Redis", SangomaCodecSetting |-> "Redis",
    ShoutSetting |-> "Shout", SndfileSetting |-> "Sndfile",
    SofiaGlobalSetting |-> "Sofia", SofiaProfile |-> "Sofia",
    SofiaProfileAlias |-> "Sofia"]
GetConfName5 == [SofiaProfileDomain |-> "Sofia",
    SofiaProfileParameter |-> "Sofia", SofiaProfileGateway |-> "Sofia",
    SofiaProfileGatewayParameter |-> "Sofia",
    SofiaProfileGatewayVariable |-> "Sofia",
    TtsCommandlineSetting |-> "TtsCommandline", UnicallSetting |-> "Unicall",
    UnicallSpan |-> "Unicall", UnicallSpanParameter |-> "Unicall",
    VertoSetting |-> "Verto", VertoProfile |-> "Verto",
    VertoProfileParameter |-> "Verto", VoicemailSetting |-> "Voicemail",
    VoicemailProfile |-> "Voicemail",
    VoicemailProfileParameter |-> "Voicemail",
    VoicemailProfileEmailParameter |-> "Voicemail",
    XmlRpcSetting |-> "XmlRpc", XmlCdrSetting |-> "XmlCdr",
    ZeroconfSetting |-> "Zeroconf"]
GetConfNameByStruct ==
    GetConfName1 @@ GetConfName2 @@ GetConfName3 @@ GetConfName4 @@ GetConfName5
GetModuleNameByConfName == [CdrPgCsv |-> "CdrPgCsv", Sofia |-> "Sofia",
    Acl |-> "Acl", Verto |-> "Verto", Callcenter |-> "Callcenter",
    OdbcCdr |-> "OdbcCdr", Lcr |-> "Lcr", Shout |-> "Shout",
    Redis |-> "Redis", Nibblebill |-> "Nibblebill", Db |-> "Db",
    Memcache |-> "Memcache", Avmd |-> "Avmd",
    TtsCommandline |-> "TtsCommandline", CdrMongodb |-> "CdrMongodb",
    HttpCache |-> "HttpCache", Opus |-> "Opus", Python |-> "Python",
    Alsa |-> "Alsa", Amr |-> "Amr", Amrwb |-> "Amrwb",
    Cepstral |-> "Cepstral", Cidlookup |-> "Cidlookup", Curl |-> "Curl",
    DialplanDirectory |-> "DialplanDirectory", Easyroute |-> "Easyroute",
    ErlangEvent |-> "ErlangEvent", EventMulticast |-> "EventMulticast",
    Fax |-> "Fax", Lua |-> "Lua", Mongo |-> "Mongo", Msrp |-> "Msrp",
    Oreka |-> "Oreka", Perl |-> "Perl", Pocketsphinx |-> "Pocketsphinx",
    SangomaCodec |-> "SangomaCodec", Sndfile |-> "Sndfile",
    XmlCdr |-> "XmlCdr", XmlRpc |-> "XmlRpc", Zeroconf |-> "Zeroconf",
    Distributor |-> "Distributor", PostLoadSwitch |-> "PostLoadSwitch",
    Switch |-> "Switch", Directory |-> "Directory", Fifo |-> "Fifo",
    Opal |-> "Opal", Osp |-> "Osp", Unicall |-> "Unicall",
    Conference |-> "Conference", PostLoadModules |-> "PostLoadModules",
    Voicemail |-> "Voicemail"]
GetModuleByName == [CdrPgCsv |-> "CdrPgCsv", SofiaAlias |-> "Sofia",
    Sofia |-> "Sofia", Acl |-> "Acl", Verto |-> "Verto",
    VertoAlias |-> "Verto", Callcenter |-> "Callcenter",
    CallcenterAlias |-> "Callcenter", OdbcCdr |-> "OdbcCdr",
    LcrAlias |-> "Lcr", Lcr |-> "Lcr", Shout |-> "Shout", Redis |-> "Redis",
    Nibblebill |-> "Nibblebill", Db |-> "Db", Memcache |-> "Memcache",
    Avmd |-> "Avmd", TtsCommandline |-> "TtsCommandline",
    CdrMongodb |-> "CdrMongodb", HttpCache |-> "HttpCache", Opus |-> "Opus",
    Python |-> "Python", Alsa |-> "Alsa", Amr |-> "Amr", Amrwb |-> "Amrwb",
    Cepstral |-> "Cepstral", Cidlookup |-> "Cidlookup", Curl |-> "Curl",
    DialplanDirectory |-> "DialplanDirectory", Easyroute |-> "Easyroute",
    ErlangEvent |-> "ErlangEvent", EventMulticast |-> "EventMulticast",
    Fax |-> "Fax", Lua |-> "Lua", Mongo |-> "Mongo", Msrp |-> "Msrp",
    Oreka |-> "Oreka", Perl |-> "Perl", Pocketsphinx |-> "Pocketsphinx",
    SangomaCodec |-> "SangomaCodec", Sndfile |-> "Sndfile",
    XmlCdr |-> "XmlCdr", XmlRpc |-> "XmlRpc", Zeroconf |-> "Zeroconf",
    Distributor |-> "Distributor", Opal |-> "Opal", Unicall |-> "Unicall",
    Directory |-> "Directory", Fifo |-> "Fifo", Osp |-> "Osp",
    Conference |-> "Conference", ConferenceLayouts |-> "ConferenceLayouts",
    PostLoadModules |-> "PostLoadModules",
    PostLoadSwitch |-> "PostLoadSwitch", Voicemail |-> "Voicemail"]

-----------------------------------------------------------------------------
(* The rows an administrator can add, switch and delete: the handlers
   registered for each part of the configuration. *)
ACLRequests ==
    [add |-> {"AclList", "AclNode"},
     switch |-> {"AclNode"},
     delete |-> {"AclList", "AclNode"}]
AllRequests(tables) == [add |-> tables, switch |-> tables, delete |-> tables]
CDRRequests == AllRequests({"CdrPgCsvSetting", "OdbcCdrSetting",
    "CdrPgCsvSchema", "OdbcCdrTable", "OdbcCdrTableField"})
ConferenceRequests ==
    [add |-> {"ConferenceAdvertiseRoom",
         "ConferenceCallerControlGroupControl", "ConferenceCallerControlGroup",
         "ConferenceProfileParameter", "ConferenceProfile",
         "ConferenceChatPermissionProfileUser", "ConferenceChatPermissionProfile",
         "ConferenceLayout", "ConferenceLayoutGroup",
         "ConferenceLayoutGroupLayout", "ConferenceLayoutImage"},
     switch |-> {"ConferenceAdvertiseRoom",
         "ConferenceCallerControlGroupControl", "ConferenceProfileParameter",
         "ConferenceChatPermissionProfileUser", "ConferenceLayout",
         "ConferenceLayoutGroup", "ConferenceLayoutGroupLayout",
         "ConferenceLayoutImage"},
     delete |-> {"ConferenceAdvertiseRoom",
         "ConferenceCallerControlGroupControl", "ConferenceCallerControlGroup",
         "ConferenceProfileParameter", "ConferenceProfile",
         "ConferenceChatPermissionProfileUser", "ConferenceChatPermissionProfile",
         "ConferenceLayout", "ConferenceLayoutGroup",
         "ConferenceLayoutGroupLayout", "ConferenceLayoutImage"}]
DirectoryConfigRequests ==
    [add |-> {"DirectorySetting", "DirectoryProfileParameter",
         "DirectoryProfile"},
     switch |-> {"DirectorySetting", "DirectoryProfileParameter"},
     delete |-> {"DirectorySetting", "DirectoryProfileParameter",
         "DirectoryProfile"}]
FifoRequests ==
    [add |-> {"FifoSetting", "FifoFifoMember", "FifoFifo"},
     switch |-> {"FifoSetting", "FifoFifoMember"},
     delete |-> {"FifoSetting", "FifoFifoMember", "FifoFifo"}]
LCRRequests ==
    [add |-> {"LcrSetting", "LcrProfileParameter", "LcrProfile"},
     switch |-> {"LcrSetting", "LcrProfileParameter"},
     delete |-> {"LcrSetting", "LcrProfileParameter", "LcrProfile"}]
SimpleModuleSettingRequests == AllRequests({"ShoutSetting", "RedisSetting",
    "NibblebillSetting", "DbSetting", "MemcacheSetting", "AvmdSetting",
    "TtsCommandlineSetting", "CdrMongodbSetting", "OpusSetting",
    "PythonSetting", "AlsaSetting", "AmrSetting", "AmrwbSetting",
    "CespalSetting", "CidlookupSetting", "CurlSetting",
    "DialplanDirectorySetting", "EasyrouteSetting", "ErlangEventSetting",
    "EventMulticastSetting", "FaxSetting", "LuaSetting", "MongoSetting",
    "MsrpSetting", "OrekaSetting", "PerlSetting", "PocketsphinxSetting",
    "SangomaCodecSetting", "SndfileSetting", "XmlCdrSetting",
    "XmlRpcSetting", "ZeroconfSetting"})
PostSwitchRequests == AllRequests({"PostLoadSwitchSetting",
    "PostLoadSwitchCliKeybinding", "PostLoadSwitchDefaultPtime"})
CallcenterRequests ==
    [add |-> {"CallcenterSetting", "CallcenterQueueParameter",
         "CallcenterQueue"},
     switch |-> {"CallcenterSetting", "CallcenterQueueParameter"},
     delete |-> {"CallcenterSetting", "CallcenterQueueParameter",
         "CallcenterQueue"}]
HttpCacheRequests ==
    [add |-> {"HttpCacheSetting", "HttpCacheProfile",
         "HttpCacheProfileDomain"},
     switch |-> {"HttpCacheSetting", "HttpCacheProfileDomain"},
     delete |-> {"HttpCacheSetting", "HttpCacheProfile",
         "HttpCacheProfileDomain"}]
DistributorRequests ==
    [add |-> {"DistributorList", "DistributorListNode"},
     switch |-> {"DistributorListNode"},
     delete |-> {"DistributorList", "DistributorListNode"}]
PostLoadModuleRequests == AllRequests({"PostLoadModule"})
VoicemailRequests ==
    [add |-> {"VoicemailSetting", "VoicemailProfile",
         "VoicemailProfileParameter"},
     switch |-> {"VoicemailSetting", "VoicemailProfileParameter"},
     delete |-> {"VoicemailSetting", "VoicemailProfile",
         "VoicemailProfileParameter"}]
SofiaRequests ==
    [add |-> {"SofiaGlobalSetting", "SofiaProfileParameter",
         "SofiaProfileGatewayParameter", "SofiaProfile",
         "SofiaProfileGatewayVariable", "SofiaProfileGateway",
         "SofiaProfileDomain", "SofiaProfileAlias"},
     switch |-> {"SofiaGlobalSetting", "SofiaProfileParameter",
         "SofiaProfileGatewayParameter", "SofiaProfileGatewayVariable",
         "SofiaProfileDomain", "SofiaProfileAlias", "SofiaProfile"},
     delete |-> {"SofiaGlobalSetting", "SofiaProfileParameter",
         "SofiaProfileGatewayParameter", "SofiaProfile",
         "SofiaProfileGatewayVariable", "SofiaProfileGateway",
         "SofiaProfileDomain", "SofiaProfileAlias"}]
OpalRequests ==
    [add |-> {"OpalSetting", "OpalListenerParameter", "OpalListener"},
     switch |-> {"OpalSetting", "OpalListenerParameter"},
     delete |-> {"OpalSetting", "OpalListenerParameter", "OpalListener"}]
OspRequests ==
    [add |-> {"OspSetting", "OspProfileParameter", "OspProfile"},
     switch |-> {"OspSetting", "OspProfileParameter"},
     delete |-> {"OspSetting", "OspProfileParameter", "OspProfile"}]
UnicallRequests ==
    [add |-> {"UnicallSetting", "UnicallSpanParameter", "UnicallSpan"},
     switch |-> {"UnicallSetting", "UnicallSpanParameter"},
     delete |-> {"UnicallSetting", "UnicallSpanParameter", "UnicallSpan"}]
VertoConfigRequests ==
    [add |-> {"VertoSetting", "VertoProfileParameter", "VertoProfile"},
     switch |-> {"VertoSetting", "VertoProfileParameter"},
     delete |-> {"VertoSetting", "VertoProfileParameter", "VertoProfile"}]

Registered == {ACLRequests, CDRRequests, ConferenceRequests,
    DirectoryConfigRequests, FifoRequests, LCRRequests,
    SimpleModuleSettingRequests, PostSwitchRequests, CallcenterRequests,
    HttpCacheRequests, DistributorRequests, PostLoadModuleRequests,
    VoicemailRequests, SofiaRequests, OpalRequests, OspRequests,
    UnicallRequests, VertoConfigRequests}
=============================================================================
