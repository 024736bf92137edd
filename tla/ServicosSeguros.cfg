CONSTANTS
    p1 = p1
    p2 = p2
    b1 = b1
    b2 = b2
    m2 = m2
    d1 = d1
    d2 = d2
    Operadores = {o1, o2}
    Pessoas = {1, 2}
    Iniciais = {1}
    Atendimentos = {1, 2}
    Telefones = {f1}
    Limites = {1, 2}
    Requisicoes = {r1, r2}
    Nada = Nada
    Territorios = {m1, m2, b1, b2}
    Municipios = {m1, m2}
    Bairros = {b1, b2}
    CodigoIbge <- Codigos
    JaCriados = {m1, b1, b2}
    Mudancas = {r1, r2}
    MaxMudancasT = 3
    SemPai = SemPai
    PessoasT = {p1, p2}
    Itens = {1, 2, 3}
    BairrosT = {b1, b2}
    Elos = {1, 2, 3}
    Alteracoes0 = {o1, o2}
    MaxAlteracoes = 3
    MaxLigacoes = 1
    Nenhum = Nenhum
    Envios = {o1, o2}
    Donos = {d1, d2, d3}
    Origem <- Origens0
    Remocoes = {x1}
    Extracoes = {r1, r2}
    SemArquivo = SemArquivo
    Registros = {r1, r2}
    Identidades = {i1, i2}
    TiposPessoa = {y1, y2}
    Familias = {q1, q2, q3}
    Trocas = {o1, o2}
    Nenhuma = Nenhuma
SPECIFICATION SpecServicos
\* the bounds are used up
CHECK_DEADLOCK FALSE
SYMMETRY SimetriaServicos
INVARIANTS UmAbertoPorPessoa CicloSoSemConferir LocaisConferem ArquivoConfere CadastroConfere
PROPERTIES EncerramentoDefinitivo ImplementaFila OrganizacaoCompleta PrincipalUnico
